---- MODULE Spec2Model ----
(***************************************************************************)
(* Model of the structured search and relevance ranking engine of          *)
(* src/lib/search-properties-tool.js (property search) and of the vehicle  *)
(* variant in src/unnamed/part_002.                                        *)
(*                                                                         *)
(* JSON values are tagged records.  JavaScript numbers are kept in tenths  *)
(* (fixed point, one decimal digit) so that Math.round is observable.      *)
(* Text is a sequence of symbols; every symbol stands for an atomic chunk  *)
(* of characters, so String.includes is contiguous-subsequence search.     *)
(***************************************************************************)
EXTENDS Integers, Sequences, FiniteSets, TLC

\* ------------------------------------------------------------------------
\* JSON values
\* ------------------------------------------------------------------------
JNull == [k |-> "null"]

JNum(n) == [k |-> "num", v |-> n]

JStr(s) == [k |-> "str", s |-> s]

JBool(b) == [k |-> "bool", b |-> b]

JArr(a) == [k |-> "arr", a |-> a]

NaN == [k |-> "nan"]

\* numbers are stored in tenths: T(3) is the JavaScript number 3
T(n) == n * 10

IsNum(j) == j.k = "num"

\* `x == null` / `x != null` of JavaScript
IsNullish(j) == j.k = "null"

\* ------------------------------------------------------------------------
\* Sequence helpers
\* ------------------------------------------------------------------------
RECURSIVE SeqFilter(_, _)
SeqFilter(s, keep) ==
  IF s = <<>> THEN <<>>
  ELSE IF keep[Head(s)] THEN <<Head(s)>> \o SeqFilter(Tail(s), keep)
       ELSE SeqFilter(Tail(s), keep)

Range(s) == {s[i] : i \in 1..Len(s)}

Min2(a, b) == IF a <= b THEN a ELSE b

Max2(a, b) == IF a >= b THEN a ELSE b

\* ------------------------------------------------------------------------
\* Text: String.includes, trim, toLowerCase, split
\* ------------------------------------------------------------------------
\* String.prototype.includes
Includes(text, part) ==
  \E i \in 0..(Len(text) - Len(part)) : SubSeq(text, i + 1, i + Len(part)) = part

UpperSyms == {"Makati", "Taguig", "Pool", "Ayala"}

LowerOf(c) ==
  CASE c = "Makati" -> "makati"
    [] c = "Taguig" -> "taguig"
    [] c = "Pool" -> "pool"
    [] c = "Ayala" -> "ayala"
    [] OTHER -> c

\* String.prototype.toLowerCase
ToLower(text) == [i \in 1..Len(text) |-> LowerOf(text[i])]

RECURSIVE TrimLeft(_)
TrimLeft(text) ==
  IF text # <<>> /\ Head(text) = " " THEN TrimLeft(Tail(text)) ELSE text

RECURSIVE TrimRight(_)
TrimRight(text) ==
  IF text # <<>> /\ text[Len(text)] = " "
  THEN TrimRight(SubSeq(text, 1, Len(text) - 1)) ELSE text

\* String.prototype.trim
Trim(text) == TrimRight(TrimLeft(text))

\* String.prototype.split on a set of separator symbols
RECURSIVE SplitAcc(_, _, _)
SplitAcc(text, seps, cur) ==
  IF text = <<>> THEN <<cur>>
  ELSE IF Head(text) \in seps
       THEN <<cur>> \o SplitAcc(Tail(text), seps, <<>>)
       ELSE SplitAcc(Tail(text), seps, Append(cur, Head(text)))

Split(text, seps) == SplitAcc(text, seps, <<>>)

\* Array.prototype.join(", ")
RECURSIVE JoinComma(_)
JoinComma(list) ==
  IF list = <<>> THEN <<>>
  ELSE IF Len(list) = 1 THEN list[1]
       ELSE list[1] \o <<",", " ">> \o JoinComma(Tail(list))

\* ------------------------------------------------------------------------
\* Numbers: Number(), sanitizeNumber, Math.round
\* ------------------------------------------------------------------------
Digits == {"0", "1", "2", "3", "4", "5", "6", "7", "8", "9"}

DigitVal(c) ==
  CASE c = "0" -> 0 [] c = "1" -> 1 [] c = "2" -> 2 [] c = "3" -> 3
    [] c = "4" -> 4 [] c = "5" -> 5 [] c = "6" -> 6 [] c = "7" -> 7
    [] c = "8" -> 8 [] c = "9" -> 9

RECURSIVE DigitsVal(_, _)
DigitsVal(ds, acc) ==
  IF ds = <<>> THEN acc ELSE DigitsVal(Tail(ds), acc * 10 + DigitVal(Head(ds)))

DotsOf(body) == {i \in 1..Len(body) : body[i] = "."}

\* digits with at most one ".", at least one digit
IsNumeral(body) ==
  /\ \A i \in 1..Len(body) : body[i] \in Digits \cup {"."}
  /\ Cardinality(DotsOf(body)) <= 1
  /\ \E i \in 1..Len(body) : body[i] \in Digits

DotAt(body) ==
  IF DotsOf(body) = {} THEN Len(body) + 1 ELSE CHOOSE i \in DotsOf(body) : TRUE

\* the value in tenths: digits after the first decimal are dropped
Magnitude(body, dot) ==
  DigitsVal(SubSeq(body, 1, dot - 1), 0) * 10
    + (IF dot < Len(body) THEN DigitVal(body[dot + 1]) ELSE 0)

NumberOfSigned(neg, body) ==
  IF ~IsNumeral(body) THEN NaN
  ELSE JNum(IF neg THEN 0 - Magnitude(body, DotAt(body))
            ELSE Magnitude(body, DotAt(body)))

\* Number(string) for a string made of digits, "." and "-" only:
\* an optional leading "-", then a numeral
NumberOfCleaned(cleaned) ==
  IF cleaned # <<>> /\ Head(cleaned) = "-" THEN NumberOfSigned(TRUE, Tail(cleaned))
  ELSE NumberOfSigned(FALSE, cleaned)

NumChars == Digits \cup {".", "-"}

\* value.replace(/[^0-9.-]/g, "")
StripNonNumeric(s) == SeqFilter(s, [c \in Range(s) |-> c \in NumChars])

\* Number.isFinite(num) ? num : null
FiniteOrNull(num) == IF num.k = "num" THEN num ELSE JNull

sanitizeCleaned(cleaned) ==
  IF cleaned \in {<<>>, <<"-">>, <<".">>} THEN JNull
  ELSE FiniteOrNull(NumberOfCleaned(cleaned))

\* sanitizeNumber: null for null/undefined, non-numbers and unparseable text
sanitizeNumber(value) ==
  CASE value.k = "null" -> JNull
    [] value.k = "num" -> value
    [] value.k = "str" -> sanitizeCleaned(StripNonNumeric(value.s))
    [] OTHER -> JNull

\* Math.round on a number kept in tenths: floor(x + 0.5)
MathRound(n) == ((n + 5) \div 10) * 10

\* Number(x) for a catalog field that is a number or null: Number(null) is 0
NumberOf(j) ==
  CASE j.k = "num" -> j
    [] j.k = "null" -> JNum(0)
    [] OTHER -> NaN

\* Number.isFinite
IsFinite(j) == j.k = "num"

\* String(value) for an id: text is kept, an integer becomes its digits
DigitSym(d) ==
  CASE d = 0 -> "0" [] d = 1 -> "1" [] d = 2 -> "2" [] d = 3 -> "3"
    [] d = 4 -> "4" [] d = 5 -> "5" [] d = 6 -> "6" [] d = 7 -> "7"
    [] d = 8 -> "8" [] d = 9 -> "9"

RECURSIVE NatToText(_)
NatToText(n) ==
  IF n < 10 THEN <<DigitSym(n)>> ELSE NatToText(n \div 10) \o <<DigitSym(n % 10)>>

StringOf(j) ==
  CASE j.k = "str" -> j.s
    [] j.k = "num" -> NatToText(j.v \div 10)
    [] OTHER -> <<"null">>

\* ------------------------------------------------------------------------
\* Catalog records (PropertyRecord of the content API).  A text field that
\* is null or empty is the empty text: the code reads both as falsy.
\* ------------------------------------------------------------------------
BaseUnit ==
  [configPrice |-> JNull, bedrooms |-> JNull, bathrooms |-> JNull,
   unitType |-> <<>>, lotArea |-> JNull, unitFeatures |-> <<>>]

BaseListing ==
  [id |-> JStr(<<"0">>), name |-> <<>>, locationName |-> <<>>,
   projectName |-> <<>>, developerName |-> <<>>,
   project |-> [name |-> <<>>, devFullName |-> <<>>, devShortName |-> <<>>,
                devSlug |-> <<>>],
   developer |-> [fullName |-> <<>>, shortName |-> <<>>, slug |-> <<>>],
   price |-> JNull, bedrooms |-> JNull, bathrooms |-> JNull,
   unitConfiguration |-> <<>>,
   searchTags |-> <<>>, secondaryTags |-> <<>>,
   amenitiesAndCommonFacilities |-> <<>>, buildingAmenities |-> <<>>,
   unitFeatures |-> <<>>, description |-> <<>>, summary |-> <<>>,
   location |-> JNull, distanceKm |-> JNull]

\* ------------------------------------------------------------------------
\* buildStrictCandidates: list normalisation and the per-listing predicates
\* ------------------------------------------------------------------------
\* normalizeList of buildStrictCandidates: null -> [], a string is split on
\* ",", every item trimmed, empty items dropped, optionally lower-cased
buildNormalizeList(value, lowercase) ==
  LET raw == CASE value.k = "null" -> <<>>
               [] value.k = "arr" -> [i \in 1..Len(value.a) |-> StringOf(value.a[i])]
               [] value.k = "str" -> Split(value.s, {","})
               [] OTHER -> <<StringOf(value)>>
      trimmed == [i \in 1..Len(raw) |-> Trim(raw[i])]
      cleaned == SeqFilter(trimmed, [t \in Range(trimmed) |-> Len(t) > 0])
  IN IF lowercase THEN [i \in 1..Len(cleaned) |-> ToLower(cleaned[i])] ELSE cleaned

\* the range test shared by price, bedrooms and bathrooms (`meets`)
meets(val, lo, hi) ==
  IF ~IsNullish(lo) /\ ~IsNullish(hi) THEN val >= lo.v /\ val <= hi.v
  ELSE IF ~IsNullish(lo) THEN val >= lo.v
  ELSE IF ~IsNullish(hi) THEN val <= hi.v
  ELSE TRUE

\* unitConfiguration.map(u => Number(u.f)).filter(Number.isFinite)
UnitNumbers(prop, f) ==
  LET nums == [i \in 1..Len(prop.unitConfiguration) |->
                 NumberOf(prop.unitConfiguration[i][f])]
  IN SeqFilter(nums, [n \in Range(nums) |-> IsFinite(n)])

propertyMeetsPrice(prop, criteria) ==
  IF IsNullish(criteria.min_price) /\ IsNullish(criteria.max_price) THEN TRUE
  ELSE LET unitPrices == UnitNumbers(prop, "configPrice")
           p == NumberOf(prop.price)
       IN IF Len(unitPrices) > 0
          THEN \E i \in 1..Len(unitPrices) :
                 meets(unitPrices[i].v, criteria.min_price, criteria.max_price)
          ELSE IF IsFinite(p)
               THEN meets(p.v, criteria.min_price, criteria.max_price)
               ELSE FALSE

\* the bedroom test deciding by the units alone when the listing has units
propertyMeetsBedroomsUnitsFirst(prop, criteria) ==
  IF IsNullish(criteria.min_bedrooms) /\ IsNullish(criteria.max_bedrooms) THEN TRUE
  ELSE LET unitBedrooms == UnitNumbers(prop, "bedrooms")
       IN IF Len(unitBedrooms) > 0
          THEN \E i \in 1..Len(unitBedrooms) :
                 meets(unitBedrooms[i].v, criteria.min_bedrooms, criteria.max_bedrooms)
          ELSE meets(NumberOf(prop.bedrooms).v, criteria.min_bedrooms,
                     criteria.max_bedrooms)

propertyMeetsBedrooms(prop, criteria) ==
  IF IsNullish(criteria.min_bedrooms) /\ IsNullish(criteria.max_bedrooms) THEN TRUE
  ELSE LET propBedrooms == NumberOf(prop.bedrooms)
           unitBedrooms == UnitNumbers(prop, "bedrooms")
           propMeets == IF IsFinite(propBedrooms)
                        THEN meets(propBedrooms.v, criteria.min_bedrooms,
                                   criteria.max_bedrooms)
                        ELSE FALSE
           anyUnitMeets == \E i \in 1..Len(unitBedrooms) :
                             meets(unitBedrooms[i].v, criteria.min_bedrooms,
                                   criteria.max_bedrooms)
       IN propMeets \/ anyUnitMeets

propertyMeetsBathrooms(prop, criteria) ==
  IF IsNullish(criteria.min_bathrooms) /\ IsNullish(criteria.max_bathrooms) THEN TRUE
  ELSE LET propBathrooms == NumberOf(prop.bathrooms)
           unitBathrooms == UnitNumbers(prop, "bathrooms")
           propMeets == IF IsFinite(propBathrooms)
                        THEN meets(propBathrooms.v, criteria.min_bathrooms,
                                   criteria.max_bathrooms)
                        ELSE FALSE
           anyUnitMeets == \E i \in 1..Len(unitBathrooms) :
                             meets(unitBathrooms[i].v, criteria.min_bathrooms,
                                   criteria.max_bathrooms)
       IN propMeets \/ anyUnitMeets

HOUSE_UNIT_TYPES == {<<"house_and_lot">>}

CONDO_UNIT_TYPES ==
  {<<"bedroom_unit">>, <<"studio_open_plan">>, <<"loft">>, <<"bi_level">>,
   <<"penthouse">>}

\* the query regexes for specific unit types, on a lower-cased query
HasWord(text, words) == \E i \in 1..Len(text) : LowerOf(text[i]) \in words

propertyMeetsType(prop, criteria) ==
  IF criteria.filter_ptype = <<>> THEN TRUE
  ELSE LET desiredType == ToLower(criteria.filter_ptype)
           units == prop.unitConfiguration
           unitTypes == {ToLower(units[i].unitType) : i \in 1..Len(units)}
           unitHasLotArea == \E i \in 1..Len(units) :
                               IsNum(units[i].lotArea) /\ units[i].lotArea.v > 0
           isHouseByUnits == unitHasLotArea \/ unitTypes \cap HOUSE_UNIT_TYPES # {}
           isCondoByUnits == unitTypes \cap CONDO_UNIT_TYPES # {}
           queryText == criteria.query
       IN IF HasWord(queryText, {"bi-level", "bilevel", "bi level"})
          THEN <<"bi_level">> \in unitTypes
          ELSE IF HasWord(queryText, {"loft"}) THEN <<"loft">> \in unitTypes
          ELSE IF HasWord(queryText, {"penthouse"}) THEN <<"penthouse">> \in unitTypes
          ELSE IF HasWord(queryText, {"studio", "bachelor pad", "bachelor's pad"})
               THEN <<"studio_open_plan">> \in unitTypes
          ELSE IF desiredType = <<"house">> THEN isHouseByUnits
          ELSE IF desiredType = <<"condo">> THEN isCondoByUnits
          ELSE TRUE

\* String(value).toLowerCase().trim(), dropped when falsy or empty
TokenOf(value) == Trim(ToLower(value))

NonEmpty(set) == {t \in set : t # <<>>}

collectDeveloperTokens(prop) ==
  NonEmpty({TokenOf(prop.developer.fullName), TokenOf(prop.developer.shortName),
            TokenOf(prop.developer.slug), TokenOf(prop.developerName),
            TokenOf(prop.project.devFullName), TokenOf(prop.project.devShortName),
            TokenOf(prop.project.devSlug)})

collectProjectTokens(prop) ==
  NonEmpty({TokenOf(prop.project.name), TokenOf(prop.projectName),
            TokenOf(prop.name)})

\* the amenity synonym table; a filter without an entry stands for itself
\* with "_" replaced by " "
amenitySynonyms(filter) ==
  CASE filter = <<"swimming_pool">> -> {<<"swimming", " ", "pool">>, <<"pool">>}
    [] filter = <<"fitness_center">> -> {<<"fitness", " ", "center">>, <<"gym">>}
    [] filter = <<"parking">> ->
         {<<"parking">>, <<"parking", " ", "space">>, <<"parking", " ", "slot">>,
          <<"car", " ", "park">>}
    [] filter = <<"balcony">> -> {<<"balcony">>}
    [] filter = <<"security">> ->
         {<<"security">>, <<"24/7", " ", "security">>, <<"guarded">>}
    [] filter = <<"elevator">> -> {<<"elevator">>, <<"lift">>}
    [] filter = <<"clubhouse">> -> {<<"clubhouse">>}
    [] filter = <<"garden">> -> {<<"garden">>, <<"landscaped", " ", "garden">>}
    [] filter = <<"rooftop_deck">> ->
         {<<"rooftop", " ", "deck">>, <<"roof", " ", "deck">>, <<"rooftop">>}
    [] filter = <<"pet_area">> ->
         {<<"pet", " ", "area">>, <<"pet-friendly">>, <<"pet", " ", "friendly">>}
    [] filter = <<"smart_home">> -> {<<"smart", " ", "home">>, <<"smart-home">>}
    [] OTHER -> {[i \in 1..Len(filter) |-> IF filter[i] = "_" THEN " " ELSE filter[i]]}

\* addTokens: lower-case, split on , . ; newline, trim, drop empty parts
TextTokens(text) ==
  LET parts == Split(ToLower(text), {",", ".", ";", "\n"})
  IN NonEmpty({Trim(parts[i]) : i \in 1..Len(parts)})

ListTokens(list) == UNION {TextTokens(list[i]) : i \in 1..Len(list)}

collectAmenityTokens(prop) ==
  ListTokens(prop.searchTags) \cup ListTokens(prop.secondaryTags)
    \cup TextTokens(prop.amenitiesAndCommonFacilities)
    \cup TextTokens(prop.buildingAmenities) \cup TextTokens(prop.unitFeatures)
    \cup TextTokens(prop.description) \cup TextTokens(prop.summary)
    \cup UNION {TextTokens(prop.unitConfiguration[i].unitFeatures) :
                  i \in 1..Len(prop.unitConfiguration)}

EitherIncludes(token, filter) == Includes(token, filter) \/ Includes(filter, token)

propertyMeetsDeveloper(prop, developerFilters) ==
  IF Len(developerFilters) = 0 THEN TRUE
  ELSE \E i \in 1..Len(developerFilters) :
         \E token \in collectDeveloperTokens(prop) :
           EitherIncludes(token, developerFilters[i])

propertyMeetsProject(prop, projectFilters) ==
  IF Len(projectFilters) = 0 THEN TRUE
  ELSE \E i \in 1..Len(projectFilters) :
         \E token \in collectProjectTokens(prop) :
           EitherIncludes(token, projectFilters[i])

propertyHasRequiredAmenities(prop, amenityFilters) ==
  IF Len(amenityFilters) = 0 THEN TRUE
  ELSE \A i \in 1..Len(amenityFilters) :
         \E syn \in amenitySynonyms(amenityFilters[i]) :
           \E token \in collectAmenityTokens(prop) : Includes(token, ToLower(syn))

\* the lower-cased composite the location tokens are searched in
LocationText(prop) ==
  ToLower(prop.locationName \o <<" ">> \o prop.project.name \o <<" ">>
            \o prop.developer.fullName \o <<" ">> \o prop.name)

propertyTextContainsAnyLocation(prop, locations) ==
  \E i \in 1..Len(locations) : Includes(LocationText(prop), locations[i])

\* ------------------------------------------------------------------------
\* buildStrictCandidates: the four passes
\* ------------------------------------------------------------------------
\* excludedSet.has(String(it.id))
IsExcluded(it, excludedIds) ==
  StringOf(it.id) \in {StringOf(excludedIds[i]) : i \in 1..Len(excludedIds)}

\* the filters of one request, as buildStrictCandidates derives them
BuildFilters(criteria) ==
  [developerFilters |-> buildNormalizeList(criteria.filter_developer, TRUE),
   projectFilters |-> buildNormalizeList(criteria.filter_project, TRUE),
   amenityFilters |-> buildNormalizeList(criteria.must_have_amenities, TRUE),
   locationTokens |-> buildNormalizeList(JStr(criteria.filter_location), TRUE)]

\* the first pass with the bedroom filter forgotten
StrictKeepsNoBedrooms(it, criteria, f, excludedIds) ==
  /\ ~IsExcluded(it, excludedIds)
  /\ propertyMeetsPrice(it, criteria)
  /\ propertyMeetsType(it, criteria)
  /\ propertyMeetsBathrooms(it, criteria)
  /\ propertyMeetsDeveloper(it, f.developerFilters)
  /\ propertyMeetsProject(it, f.projectFilters)
  /\ propertyHasRequiredAmenities(it, f.amenityFilters)
  /\ (Len(f.locationTokens) > 0 => propertyTextContainsAnyLocation(it, f.locationTokens))

\* first pass: every hard filter, text location when one was requested
StrictKeeps(it, criteria, f, excludedIds) ==
  /\ ~IsExcluded(it, excludedIds)
  /\ propertyMeetsPrice(it, criteria)
  /\ propertyMeetsType(it, criteria)
  /\ propertyMeetsBedrooms(it, criteria)
  /\ propertyMeetsBathrooms(it, criteria)
  /\ propertyMeetsDeveloper(it, f.developerFilters)
  /\ propertyMeetsProject(it, f.projectFilters)
  /\ propertyHasRequiredAmenities(it, f.amenityFilters)
  /\ (Len(f.locationTokens) > 0 => propertyTextContainsAnyLocation(it, f.locationTokens))

\* a second pass dropping the price along with the required amenities
AmenityRelaxedKeepsNoPrice(it, criteria, f, excludedIds) ==
  /\ ~IsExcluded(it, excludedIds)
  /\ propertyMeetsType(it, criteria)
  /\ propertyMeetsBedrooms(it, criteria)
  /\ propertyMeetsBathrooms(it, criteria)
  /\ propertyMeetsDeveloper(it, f.developerFilters)
  /\ propertyMeetsProject(it, f.projectFilters)
  /\ propertyTextContainsAnyLocation(it, f.locationTokens)

\* second pass: required amenities dropped, location kept
AmenityRelaxedKeeps(it, criteria, f, excludedIds) ==
  /\ ~IsExcluded(it, excludedIds)
  /\ propertyMeetsPrice(it, criteria)
  /\ propertyMeetsType(it, criteria)
  /\ propertyMeetsBedrooms(it, criteria)
  /\ propertyMeetsBathrooms(it, criteria)
  /\ propertyMeetsDeveloper(it, f.developerFilters)
  /\ propertyMeetsProject(it, f.projectFilters)
  /\ propertyTextContainsAnyLocation(it, f.locationTokens)

\* third pass: price and required amenities dropped, location kept
PriceRelaxedKeeps(it, criteria, f, excludedIds) ==
  /\ ~IsExcluded(it, excludedIds)
  /\ propertyMeetsType(it, criteria)
  /\ propertyMeetsBedrooms(it, criteria)
  /\ propertyMeetsBathrooms(it, criteria)
  /\ propertyMeetsDeveloper(it, f.developerFilters)
  /\ propertyMeetsProject(it, f.projectFilters)
  /\ propertyTextContainsAnyLocation(it, f.locationTokens)

Abs(n) == IF n < 0 THEN 0 - n ELSE n

\* great-circle distance in tenths of a km, for coordinates in tenths of a
\* degree: one degree of arc is 111 km (exact along a meridian)
calculateDistance(lat1, lon1, lat2, lon2) ==
  111 * (Abs(lat2 - lat1) + Abs(lon2 - lon1))

GeoRadiusKm == 100

\* `it.location?.latitude && it.location?.longitude`: both present, non-zero
HasCoords(it) ==
  /\ ~IsNullish(it.location)
  /\ it.location.latitude # 0
  /\ it.location.longitude # 0

\* a coordinate pair in tenths of a degree
Coords(lat, lon) == [k |-> "obj", latitude |-> lat, longitude |-> lon]

GeoDistance(it, queryCoords) ==
  calculateDistance(queryCoords.latitude, queryCoords.longitude,
                    it.location.latitude, it.location.longitude)

\* the fourth pass skipping records that already carry a distance
GeoKeepsUnmarked(it, criteria, f, excludedIds, queryCoords) ==
  /\ ~IsNum(it.distanceKm)
  /\ ~IsExcluded(it, excludedIds)
  /\ propertyMeetsPrice(it, criteria)
  /\ propertyMeetsType(it, criteria)
  /\ propertyMeetsBedrooms(it, criteria)
  /\ propertyMeetsBathrooms(it, criteria)
  /\ propertyMeetsDeveloper(it, f.developerFilters)
  /\ propertyMeetsProject(it, f.projectFilters)
  /\ propertyHasRequiredAmenities(it, f.amenityFilters)
  /\ HasCoords(it)
  /\ GeoDistance(it, queryCoords) <= T(GeoRadiusKm)

\* fourth pass: every hard filter but text location, within 100 km
GeoKeeps(it, criteria, f, excludedIds, queryCoords) ==
  /\ ~IsExcluded(it, excludedIds)
  /\ propertyMeetsPrice(it, criteria)
  /\ propertyMeetsType(it, criteria)
  /\ propertyMeetsBedrooms(it, criteria)
  /\ propertyMeetsBathrooms(it, criteria)
  /\ propertyMeetsDeveloper(it, f.developerFilters)
  /\ propertyMeetsProject(it, f.projectFilters)
  /\ propertyHasRequiredAmenities(it, f.amenityFilters)
  /\ HasCoords(it)
  /\ GeoDistance(it, queryCoords) <= T(GeoRadiusKm)

\* proximity intent of the query text (lower-cased): a proximity word, or
\* "around" outside a price context, followed by blank and a word
ProximityWords == {"near", "nearby", "close to", "within", "proximity"}

NonWordSyms == {" ", ",", "peso", "$"} \cup Digits

IsLetterWord(c) == c \notin NonWordSyms

FollowedByWord(q, i) ==
  /\ i + 2 <= Len(q)
  /\ q[i + 1] = " "
  /\ \E j \in (i + 2)..Len(q) :
       /\ IsLetterWord(q[j])
       /\ \A m \in (i + 1)..(j - 1) : q[m] = " "

isNearbyQuery(query) ==
  LET q == ToLower(query)
      hasPriceAround ==
        \E i \in 1..Len(q) :
          /\ q[i] = "around"
          /\ \E j \in (i + 1)..Len(q) :
               /\ q[j] \in {"peso", "$"} \cup Digits
               /\ \A m \in (i + 1)..(j - 1) : q[m] = " "
      hasLocationProximity ==
        \/ \E i \in 1..Len(q) : q[i] \in ProximityWords /\ FollowedByWord(q, i)
        \/ /\ \E i \in 1..Len(q) : q[i] = "around" /\ FollowedByWord(q, i)
           /\ ~hasPriceAround
  IN hasLocationProximity

\* one loop over the items: the kept ones, in catalog order
PassOver(items, keeps) ==
  SeqFilter(items, [it \in Range(items) |-> keeps[it]])

\* guard of the second pass
RunAmenityPass(hasLocations, found, amenityFilters) ==
  hasLocations /\ found = 0 /\ Len(amenityFilters) > 0

\* the third-pass guard without the test that the list is still empty
RunPricePassNoStop(hasLocations, found, criteria) ==
  hasLocations /\ ~IsNullish(criteria.min_price) /\ ~IsNullish(criteria.max_price)

\* a guard relaxing the price as soon as one bound is given
RunPricePassAnyBound(hasLocations, found, criteria) ==
  hasLocations /\ found = 0
    /\ (~IsNullish(criteria.min_price) \/ ~IsNullish(criteria.max_price))

\* guard of the third pass: only a closed price range is relaxed
RunPricePass(hasLocations, found, criteria) ==
  LET hasPriceRange == ~IsNullish(criteria.min_price) /\ ~IsNullish(criteria.max_price)
  IN hasLocations /\ found = 0 /\ hasPriceRange

\* a fourth pass entered without asking the query for proximity intent
RunGeoPassAnyQuery(hasLocations, found, criteria, queryCoords) ==
  hasLocations /\ found = 0 /\ ~IsNullish(queryCoords)

\* guard of the fourth pass
RunGeoPass(hasLocations, found, criteria, queryCoords) ==
  hasLocations /\ found = 0 /\ ~IsNullish(queryCoords) /\ isNearbyQuery(criteria.query)

\* first loop: the strict pass
StrictPass(items, criteria, f, excludedIds) ==
  PassOver(items, [it \in Range(items) |-> StrictKeeps(it, criteria, f, excludedIds)])

\* second loop, pushing onto the list of the first
AmenityPass(items, criteria, f, excludedIds, c1) ==
  IF RunAmenityPass(Len(f.locationTokens) > 0, Len(c1), f.amenityFilters)
  THEN c1 \o PassOver(items, [it \in Range(items) |->
                                AmenityRelaxedKeeps(it, criteria, f, excludedIds)])
  ELSE c1

\* third loop
PricePass(items, criteria, f, excludedIds, c2) ==
  IF RunPricePass(Len(f.locationTokens) > 0, Len(c2), criteria)
  THEN c2 \o PassOver(items, [it \in Range(items) |->
                                PriceRelaxedKeeps(it, criteria, f, excludedIds)])
  ELSE c2

\* fourth loop: the listings it pushes, each with its distance
GeoPass(items, criteria, f, excludedIds, queryCoords, c3) ==
  IF RunGeoPass(Len(f.locationTokens) > 0, Len(c3), criteria, queryCoords)
  THEN PassOver(items, [it \in Range(items) |->
                          GeoKeeps(it, criteria, f, excludedIds, queryCoords)])
  ELSE <<>>

WithDistance(geo, queryCoords) ==
  [i \in 1..Len(geo) |->
     [geo[i] EXCEPT !.distanceKm = JNum(GeoDistance(geo[i], queryCoords))]]

\* ran is the set of passes whose loop executed, sizes the length of the
\* list after each pass, strict the list after the first pass
CascadeOutcome(criteria, f, queryCoords, c1, c2, c3, geo) ==
  [candidates |-> c3 \o WithDistance(geo, queryCoords),
   geo |-> geo,
   strict |-> c1,
   sizes |-> <<Len(c1), Len(c2), Len(c3), Len(c3) + Len(geo)>>,
   ran |-> {"strict"}
             \cup (IF RunAmenityPass(Len(f.locationTokens) > 0, Len(c1), f.amenityFilters)
                   THEN {"amenity"} ELSE {})
             \cup (IF RunPricePass(Len(f.locationTokens) > 0, Len(c2), criteria)
                   THEN {"price"} ELSE {})
             \cup (IF RunGeoPass(Len(f.locationTokens) > 0, Len(c3), criteria, queryCoords)
                   THEN {"geo"} ELSE {})]

CascadeAfterPrice(items, criteria, f, excludedIds, queryCoords, c1, c2, c3) ==
  CascadeOutcome(criteria, f, queryCoords, c1, c2, c3,
                 GeoPass(items, criteria, f, excludedIds, queryCoords, c3))

CascadeAfterAmenity(items, criteria, f, excludedIds, queryCoords, c1, c2) ==
  CascadeAfterPrice(items, criteria, f, excludedIds, queryCoords, c1, c2,
                    PricePass(items, criteria, f, excludedIds, c2))

CascadeAfterStrict(items, criteria, f, excludedIds, queryCoords, c1) ==
  CascadeAfterAmenity(items, criteria, f, excludedIds, queryCoords, c1,
                      AmenityPass(items, criteria, f, excludedIds, c1))

CascadeWith(items, criteria, f, excludedIds, queryCoords) ==
  CascadeAfterStrict(items, criteria, f, excludedIds, queryCoords,
                     StrictPass(items, criteria, f, excludedIds))

\* the cascade of buildStrictCandidates up to the candidate list; every
\* pass pushes onto the same list
Cascade(items, criteria, excludedIds, queryCoords) ==
  CascadeWith(items, criteria, BuildFilters(criteria), excludedIds, queryCoords)

\* ------------------------------------------------------------------------
\* buildStrictCandidates: dedupe, sort, diversity balancing, cap, slim
\* ------------------------------------------------------------------------
\* the dedupe step left out
DedupeNone(cands) == cands

\* dedupe by id, keeping the first occurrence
RECURSIVE DedupeAcc(_, _, _)
DedupeAcc(cands, seen, acc) ==
  IF cands = <<>> THEN acc
  ELSE IF Head(cands).id \in seen THEN DedupeAcc(Tail(cands), seen, acc)
       ELSE DedupeAcc(Tail(cands), seen \cup {Head(cands).id}, Append(acc, Head(cands)))

Dedupe(cands) == DedupeAcc(cands, {}, <<>>)

\* stands for Infinity in the ascending sort key
Infinity == 2000000000

SeqMin(nums) == CHOOSE m \in Range(nums) : \A n \in Range(nums) : m.v <= n.v

SeqMax(nums) == CHOOSE m \in Range(nums) : \A n \in Range(nums) : m.v >= n.v

\* `a.price || fallback`: null and 0 are falsy
PriceOr(prop, fallback) ==
  IF IsNum(prop.price) /\ prop.price.v # 0 THEN prop.price.v ELSE fallback

\* the ascending key with a missing price read as 0
minPriceKeyZero(prop) ==
  LET unitPrices == UnitNumbers(prop, "configPrice")
  IN IF Len(unitPrices) > 0 THEN SeqMin(unitPrices).v ELSE PriceOr(prop, 0)

minPriceKey(prop) ==
  LET unitPrices == UnitNumbers(prop, "configPrice")
  IN IF Len(unitPrices) > 0 THEN SeqMin(unitPrices).v ELSE PriceOr(prop, Infinity)

maxPriceKey(prop) ==
  LET unitPrices == UnitNumbers(prop, "configPrice")
  IN IF Len(unitPrices) > 0 THEN SeqMax(unitPrices).v ELSE PriceOr(prop, 0)

\* Array.prototype.sort is stable: insert after every element that does
\* not compare greater
RECURSIVE InsertSorted(_, _, _)
InsertSorted(sorted, x, before) ==
  IF sorted = <<>> THEN <<x>>
  ELSE IF before[Head(sorted)] THEN <<Head(sorted)>> \o InsertSorted(Tail(sorted), x, before)
       ELSE <<x>> \o sorted

RECURSIVE StableSortAsc(_, _)
StableSortAsc(list, key) ==
  IF list = <<>> THEN <<>>
  ELSE LET x == list[Len(list)]
           rest == StableSortAsc(SubSeq(list, 1, Len(list) - 1), key)
       IN InsertSorted(rest, x, [y \in Range(rest) |-> key[y] <= key[x]])

SortCandidates(deduped, sort_by) ==
  IF sort_by = "price_asc"
  THEN StableSortAsc(deduped, [c \in Range(deduped) |-> minPriceKey(c)])
  ELSE IF sort_by = "price_desc"
  THEN StableSortAsc(deduped, [c \in Range(deduped) |-> 0 - maxPriceKey(c)])
  ELSE deduped

\* index of the first location token the candidate's text contains, 0 if none
FirstMatchingToken(cand, locationTokens) ==
  LET hits == {i \in 1..Len(locationTokens) :
                 Includes(LocationText(cand), locationTokens[i])}
  IN IF hits = {} THEN 0 ELSE CHOOSE i \in hits : \A j \in hits : i <= j

\* the Map keyed by token keeps one group per distinct token, in the order
\* of first appearance
DistinctTokenIdx(locationTokens) ==
  {i \in 1..Len(locationTokens) :
     \A j \in 1..(i - 1) : locationTokens[j] # locationTokens[i]}

GroupOf(deduped, locationTokens, i) ==
  SeqFilter(deduped, [c \in Range(deduped) |->
                        LET m == FirstMatchingToken(c, locationTokens)
                        IN m # 0 /\ locationTokens[m] = locationTokens[i]])

\* first round: the best candidate of every non-empty group, up to limit
RECURSIVE PickPerGroup(_, _, _, _, _)
PickPerGroup(deduped, locationTokens, i, limit, acc) ==
  IF i > Len(locationTokens) THEN acc
  ELSE LET group == IF i \in DistinctTokenIdx(locationTokens)
                    THEN GroupOf(deduped, locationTokens, i) ELSE <<>>
           take == /\ Len(group) > 0
                   /\ T(Len(acc)) < limit
                   /\ group[1].id \notin {acc[j].id : j \in 1..Len(acc)}
       IN PickPerGroup(deduped, locationTokens, i + 1, limit,
                       IF take THEN Append(acc, group[1]) ELSE acc)

\* second round: fill from the sorted order, skipping chosen ids
RECURSIVE FillRemaining(_, _, _)
FillRemaining(deduped, limit, acc) ==
  IF deduped = <<>> \/ T(Len(acc)) >= limit THEN acc
  ELSE IF Head(deduped).id \in {acc[j].id : j \in 1..Len(acc)}
       THEN FillRemaining(Tail(deduped), limit, acc)
       ELSE FillRemaining(Tail(deduped), limit, Append(acc, Head(deduped)))

\* no diversity balancing: the sorted order is kept
DiversityBalanceNone(deduped, locationTokens, limit) == deduped

DiversityBalance(deduped, locationTokens, limit) ==
  IF Len(locationTokens) > 1 /\ Len(deduped) > 0
  THEN LET locationsWithCandidates ==
             {i \in DistinctTokenIdx(locationTokens) :
                Len(GroupOf(deduped, locationTokens, i)) > 0}
       IN IF Cardinality(locationsWithCandidates) > 1
               /\ limit >= T(Len(locationTokens))
          THEN LET diverseCandidates ==
                     FillRemaining(deduped, limit,
                       PickPerGroup(deduped, locationTokens, 1, limit, <<>>))
               IN IF Len(diverseCandidates) >= Len(locationTokens)
                  THEN diverseCandidates ELSE deduped
          ELSE deduped
  ELSE deduped

MaxPayload == 12

\* deduped.slice(0, Math.min(limit, 12)); limit is in tenths
Cap(deduped, limit) ==
  LET K == Min2(limit, T(MaxPayload))
  IN SubSeq(deduped, 1, Min2(Len(deduped), K \div 10))

MaxTags == 8

\* the slim projection handed to the reranker
Slim(p) ==
  LET unitPrices == UnitNumbers(p, "configPrice")
      tags == p.searchTags \o p.secondaryTags
      types == [i \in 1..Len(p.unitConfiguration) |->
                  ToLower(p.unitConfiguration[i].unitType)]
  IN [id |-> p.id,
      name |-> p.name,
      locationName |-> p.locationName,
      price |-> IF IsFinite(NumberOf(p.price)) THEN NumberOf(p.price) ELSE JNull,
      minUnitPrice |-> IF Len(unitPrices) > 0 THEN SeqMin(unitPrices) ELSE JNull,
      maxUnitPrice |-> IF Len(unitPrices) > 0 THEN SeqMax(unitPrices) ELSE JNull,
      bedrooms |-> IF IsFinite(NumberOf(p.bedrooms)) THEN NumberOf(p.bedrooms) ELSE JNull,
      bathrooms |-> IF IsFinite(NumberOf(p.bathrooms)) THEN NumberOf(p.bathrooms) ELSE JNull,
      developer |-> IF p.developer.fullName # <<>> THEN p.developer.fullName
                    ELSE p.project.devShortName,
      unitTypeSummary |-> Range(types) \ {<<>>},
      amenitiesTags |-> SubSeq(tags, 1, Min2(Len(tags), MaxTags)),
      distanceKm |-> IF IsNum(p.distanceKm) THEN p.distanceKm ELSE JNull]

SlimAll(capped) == [i \in 1..Len(capped) |-> Slim(capped[i])]

\* dedupe, sort, diversity balancing and cap
cappedCandidates(casc, criteria, limit) ==
  Cap(DiversityBalance(SortCandidates(Dedupe(casc.candidates), criteria.sort_by),
                       BuildFilters(criteria).locationTokens, limit),
      limit)

\* the slim projection of the capped list, with what the passes did
slimCandidates(casc, capped) ==
  [candidates |-> SlimAll(capped),
   kept |-> capped,
   geo |-> casc.geo,
   strict |-> casc.strict,
   ran |-> casc.ran,
   sizes |-> casc.sizes]

\* dedupe, sort, diversity balancing, cap and slim projection
finishCandidates(casc, criteria, limit) ==
  slimCandidates(casc, cappedCandidates(casc, criteria, limit))

\* `it.__distanceKm = distanceKm`: the fourth pass writes the distance onto
\* the records it pushes, which are the records the caller handed in
markDistances(items, geo, queryCoords) ==
  [i \in 1..Len(items) |->
     IF items[i] \in Range(geo)
     THEN [items[i] EXCEPT !.distanceKm = JNum(GeoDistance(items[i], queryCoords))]
     ELSE items[i]]

\* buildStrictCandidates after the geocoding call returned queryCoords
buildStrictCandidates(items, criteria, excludedIds, limit, queryCoords) ==
  finishCandidates(Cascade(items, criteria, excludedIds, queryCoords), criteria, limit)

\* the whole requested location taken as the text to geocode
firstLocationWhole(criteria) == Trim(criteria.filter_location)

\* the text geocoded: the first requested location, trimmed
firstLocation(criteria) ==
  IF criteria.filter_location = <<>> THEN <<>>
  ELSE Trim(Split(criteria.filter_location, {","})[1])

\* ------------------------------------------------------------------------
\* searchPropertiesTool: normalisation of the raw criteria
\* ------------------------------------------------------------------------
\* JavaScript truthiness of a JSON value
Truthy(j) ==
  CASE j.k = "null" -> FALSE
    [] j.k = "bool" -> j.b
    [] j.k = "num" -> j.v # 0
    [] j.k = "str" -> j.s # <<>>
    [] OTHER -> TRUE

arrayify(value) ==
  IF IsNullish(value) THEN <<>>
  ELSE IF value.k = "arr" THEN value.a ELSE <<value>>

\* normalizeString: trimmed text, null when null or empty
normalizeString(value) ==
  IF IsNullish(value) THEN JNull
  ELSE LET str == Trim(StringOf(value))
       IN IF Len(str) > 0 THEN JStr(str) ELSE JNull

\* normalizeList lower-casing whatever the option says
normalizeListAlwaysLower(value, lowercase) ==
  LET items == arrayify(value)
      strs == [i \in 1..Len(items) |-> normalizeString(items[i])]
      list == SeqFilter(strs, [x \in Range(strs) |-> Truthy(x)])
  IN IF Len(list) = 0 THEN JNull
     ELSE JArr([i \in 1..Len(list) |-> JStr(ToLower(list[i].s))])

\* normalizeList of the tool: arrayify, normalizeString, drop nulls,
\* null when nothing is left
normalizeList(value, lowercase) ==
  LET items == arrayify(value)
      strs == [i \in 1..Len(items) |-> normalizeString(items[i])]
      list == SeqFilter(strs, [x \in Range(strs) |-> Truthy(x)])
  IN IF Len(list) = 0 THEN JNull
     ELSE IF lowercase
          THEN JArr([i \in 1..Len(list) |-> JStr(ToLower(list[i].s))])
          ELSE JArr(list)

TextOrEmpty(j) == IF j.k = "str" THEN j.s ELSE <<>>

\* mergeAnalyzerShape without the criteria-level exclusion ids
mergeAnalyzerShapeOuterOnly(input) ==
  [searchParams |-> [input.params EXCEPT !.excludedPropertyIds = JNull],
   flags |-> input.flags,
   excludedPropertyIds |-> IF input.shape = "wrapped"
                           THEN arrayify(input.excludedPropertyIds) ELSE <<>>]

\* the analyzer envelope {apiSearchParams, flags, excludedPropertyIds} or
\* the flattened object; a non-object input becomes {query: input}
mergeAnalyzerShape(input) ==
  LET outer == IF input.shape = "wrapped" THEN arrayify(input.excludedPropertyIds)
               ELSE IF input.shape = "flat"
               THEN arrayify(input.params.excludedPropertyIds)
               ELSE <<>>
  IN [searchParams |-> [input.params EXCEPT !.excludedPropertyIds = JNull],
      flags |-> input.flags,
      excludedPropertyIds |-> outer \o arrayify(input.params.excludedPropertyIds)]

IsNegativeRange(min, max) ==
  (~IsNullish(min) /\ min.v < 0) \/ (~IsNullish(max) /\ max.v < 0)

IsInvertedRange(min, max) == ~IsNullish(min) /\ ~IsNullish(max) /\ min.v > max.v

\* normalizeRange without the min > max test
normalizeSanitizedRangeNegativeOnly(min, max, negativeKey) ==
  IF IsNegativeRange(min, max) THEN [min |-> JNull, max |-> JNull, issue |-> negativeKey]
  ELSE [min |-> min, max |-> max, issue |-> "null"]

\* normalizeRange with the min > max test ahead of the negative test
normalizeSanitizedRangeInvertedFirst(min, max, negativeKey) ==
  IF IsInvertedRange(min, max)
  THEN [min |-> JNull, max |-> JNull, issue |-> "MIN_GREATER_THAN_MAX"]
  ELSE IF IsNegativeRange(min, max)
  THEN [min |-> JNull, max |-> JNull, issue |-> negativeKey]
  ELSE [min |-> min, max |-> max, issue |-> "null"]

normalizeSanitizedRange(min, max, negativeKey) ==
  IF IsNegativeRange(min, max) THEN [min |-> JNull, max |-> JNull, issue |-> negativeKey]
  ELSE IF IsInvertedRange(min, max)
  THEN [min |-> JNull, max |-> JNull, issue |-> "MIN_GREATER_THAN_MAX"]
  ELSE [min |-> min, max |-> max, issue |-> "null"]

normalizeRange(minValue, maxValue, negativeKey) ==
  normalizeSanitizedRange(sanitizeNumber(minValue), sanitizeNumber(maxValue), negativeKey)

LowPriceThreshold == 100000

HighPriceThreshold == 200000000

\* detectPriceOutlier without the high threshold
detectPriceOutlierLowOnly(value) ==
  IF IsNullish(value) THEN "null"
  ELSE IF value.v < T(LowPriceThreshold) THEN "TOO_LOW"
  ELSE "null"

detectPriceOutlier(value) ==
  IF IsNullish(value) THEN "null"
  ELSE IF value.v < T(LowPriceThreshold) THEN "TOO_LOW"
  ELSE IF value.v > T(HighPriceThreshold) THEN "TOO_HIGH"
  ELSE "null"

\* `a || b` on codes, "null" being the only falsy code
OrCode(a, b) == IF a # "null" THEN a ELSE b

\* structuredCriteria.price: the legacy {min, max} object
detectPriceFromLegacy(params) ==
  IF params.price.k = "obj"
  THEN [min_price |-> IF IsNullish(params.min_price) /\ ~IsNullish(params.price.min)
                         /\ ~IsNullish(sanitizeNumber(params.price.min))
                      THEN sanitizeNumber(params.price.min) ELSE params.min_price,
        max_price |-> IF IsNullish(params.max_price) /\ ~IsNullish(params.price.max)
                         /\ ~IsNullish(sanitizeNumber(params.price.max))
                      THEN sanitizeNumber(params.price.max) ELSE params.max_price]
  ELSE [min_price |-> params.min_price, max_price |-> params.max_price]

DefaultCount == 3

MaxCount == 10

\* requested_count after sanitizeNumber, Math.round and the > 0 test
normalizeRequestedCount(value) ==
  LET n == sanitizeNumber(value)
  IN IF ~IsNullish(n) /\ n.v > 0 THEN JNum(MathRound(n.v)) ELSE JNull

\* the limit without the upper clamp
limitOfNoClamp(requested_count) ==
  Max2(T(1), IF Truthy(requested_count) THEN requested_count.v ELSE T(DefaultCount))

\* Math.min(Math.max(1, requested_count || 3), 10), in tenths
limitOf(requested_count) ==
  Min2(Max2(T(1), IF Truthy(requested_count) THEN requested_count.v
                  ELSE T(DefaultCount)),
       T(MaxCount))

\* String(id) of every exclusion id, duplicates removed (first kept)
RECURSIVE UniqueTexts(_, _)
UniqueTexts(list, acc) ==
  IF list = <<>> THEN acc
  ELSE IF Head(list) \in Range(acc) THEN UniqueTexts(Tail(list), acc)
       ELSE UniqueTexts(Tail(list), Append(acc, Head(list)))

excludedIdsOf(rawExcludedIds) ==
  LET strs == UniqueTexts([i \in 1..Len(rawExcludedIds) |->
                             StringOf(rawExcludedIds[i])], <<>>)
  IN [i \in 1..Len(strs) |-> JStr(strs[i])]

\* min_price and max_price: the legacy price object, then sanitizeNumber
normalizedPrices(sp) ==
  [min |-> sanitizeNumber(detectPriceFromLegacy(sp).min_price),
   max |-> sanitizeNumber(detectPriceFromLegacy(sp).max_price)]

\* analyzerFlags.priceOutlier || detectPriceOutlier(min) || detectPriceOutlier(max)
priceOutlierOf(inFlags, prices) ==
  IF inFlags.priceOutlier # "null" THEN inFlags.priceOutlier
  ELSE OrCode(detectPriceOutlier(prices.min), detectPriceOutlier(prices.max))

\* analyzerFlags.rangeIssue || bedroomRange.issue || bathroomRange.issue
rangeIssueOf(inFlags, bedroomRange, bathroomRange) ==
  IF inFlags.rangeIssue # "null" THEN inFlags.rangeIssue
  ELSE OrCode(bedroomRange.issue, bathroomRange.issue)

\* filter_location after normalizeList: the locations joined by ", "
normalizedLocation(value) ==
  IF IsNullish(normalizeList(value, FALSE)) THEN <<>>
  ELSE JoinComma([i \in 1..Len(normalizeList(value, FALSE).a) |->
                    normalizeList(value, FALSE).a[i].s])

structuredCriteriaOf(sp, prices, bedroomRange, bathroomRange, priceOutlier, count) ==
  [query |-> TextOrEmpty(normalizeString(sp.query)),
   filter_location |-> normalizedLocation(sp.filter_location),
   filter_ptype |-> TextOrEmpty(normalizeString(sp.filter_ptype)),
   filter_developer |-> normalizeList(sp.filter_developer, FALSE),
   filter_project |-> normalizeList(sp.filter_project, FALSE),
   must_have_amenities |-> normalizeList(sp.must_have_amenities, TRUE),
   min_price |-> IF priceOutlier # "null" THEN JNull ELSE prices.min,
   max_price |-> IF priceOutlier # "null" THEN JNull ELSE prices.max,
   min_bedrooms |-> bedroomRange.min,
   max_bedrooms |-> bedroomRange.max,
   min_bathrooms |-> bathroomRange.min,
   max_bathrooms |-> bathroomRange.max,
   requested_count |-> count,
   sort_by |-> IF sp.sort_by \in {"price_asc", "price_desc"} THEN sp.sort_by
               ELSE "null"]

analyzerFlagsOf(inFlags, priceOutlier, rangeIssue) ==
  [needsClarification |-> inFlags.needsClarification,
   unrealisticPrice |-> IF priceOutlier # "null" THEN TRUE
                        ELSE inFlags.unrealisticPrice,
   priceOutlier |-> priceOutlier,
   rangeIssue |-> rangeIssue]

NormalizeWith(sp, inFlags, rawExcludedIds, prices, bedroomRange, bathroomRange, count) ==
  [criteria |-> structuredCriteriaOf(sp, prices, bedroomRange, bathroomRange,
                                     priceOutlierOf(inFlags, prices), count),
   flags |-> analyzerFlagsOf(inFlags, priceOutlierOf(inFlags, prices),
                             rangeIssueOf(inFlags, bedroomRange, bathroomRange)),
   excludedIds |-> excludedIdsOf(rawExcludedIds),
   limit |-> limitOf(count)]

NormalizeMerged(merged) ==
  NormalizeWith(merged.searchParams, merged.flags, merged.excludedPropertyIds,
                normalizedPrices(merged.searchParams),
                normalizeRange(sanitizeNumber(merged.searchParams.min_bedrooms),
                               sanitizeNumber(merged.searchParams.max_bedrooms),
                               "NEGATIVE_BEDROOMS"),
                normalizeRange(sanitizeNumber(merged.searchParams.min_bathrooms),
                               sanitizeNumber(merged.searchParams.max_bathrooms),
                               "NEGATIVE_BATHROOMS"),
                normalizeRequestedCount(merged.searchParams.requested_count))

\* everything searchPropertiesTool computes before its first early return
Normalize(input) == NormalizeMerged(mergeAnalyzerShape(input))

SentinelQueries ==
  {<<"NOT_REAL_ESTATE">>, <<"INVALID_PROPERTY_TYPE">>, <<"UNREALISTIC_DESCRIPTION">>}

SentinelMessage(query) ==
  CASE query = <<"NOT_REAL_ESTATE">> -> "NOT_REAL_ESTATE_QUERY"
    [] query = <<"INVALID_PROPERTY_TYPE">> -> "INVALID_PROPERTY_TYPE_QUERY"
    [] query = <<"UNREALISTIC_DESCRIPTION">> -> "UNREALISTIC_DESCRIPTION_QUERY"

NoFlags == [k |-> "absent"]

\* the early returns without the range-issue gate
EarlyReturnNoRangeGate(norm) ==
  IF norm.criteria.query \in SentinelQueries
  THEN [message |-> SentinelMessage(norm.criteria.query), flags |-> NoFlags]
  ELSE IF norm.flags.needsClarification
  THEN [message |-> "NEEDS_CLARIFICATION", flags |-> norm.flags]
  ELSE IF norm.flags.unrealisticPrice
  THEN [message |-> "UNREALISTIC_PRICE_QUERY", flags |-> norm.flags]
  ELSE [message |-> "none", flags |-> norm.flags]

\* the early returns of searchPropertiesTool, in source order; "none" when
\* the search goes on to fetch the catalog
EarlyReturn(norm) ==
  IF norm.criteria.query \in SentinelQueries
  THEN [message |-> SentinelMessage(norm.criteria.query), flags |-> NoFlags]
  ELSE IF norm.flags.needsClarification
  THEN [message |-> "NEEDS_CLARIFICATION", flags |-> norm.flags]
  ELSE IF norm.flags.unrealisticPrice
  THEN [message |-> "UNREALISTIC_PRICE_QUERY", flags |-> norm.flags]
  ELSE IF norm.flags.rangeIssue # "null"
  THEN [message |-> "INVALID_RANGE_QUERY", flags |-> norm.flags]
  ELSE [message |-> "none", flags |-> norm.flags]

\* ------------------------------------------------------------------------
\* Inputs: the catalog pool and the raw requests
\* ------------------------------------------------------------------------
Txt(w) == <<w>>

Peso(n) == JNum(T(n))

Unit(price, beds) ==
  [BaseUnit EXCEPT !.configPrice = price, !.bedrooms = beds, !.bathrooms = beds,
                   !.unitType = <<"bedroom_unit">>]

P1 == [BaseListing EXCEPT !.id = JStr(<<"1">>), !.name = <<"Tower", " ", "One">>,
         !.locationName = <<"Makati">>, !.price = Peso(5000000),
         !.bedrooms = JNum(T(2)), !.bathrooms = JNum(T(1)),
         !.searchTags = << <<"Pool">>, <<"gym">> >>,
         !.developer = [fullName |-> <<"Ayala", " ", "Land">>, shortName |-> <<"ALI">>,
                        slug |-> <<"ayala-land">>],
         !.location = Coords(145, 1210)]

P2 == [BaseListing EXCEPT !.id = JStr(<<"2">>), !.name = <<"Park", " ", "Two">>,
         !.locationName = <<"Taguig">>,
         !.unitConfiguration = <<Unit(Peso(3000000), JNum(T(1))),
                                 Unit(Peso(9000000), JNum(T(3)))>>,
         !.location = Coords(146, 1210)]

P3 == [BaseListing EXCEPT !.id = JStr(<<"3">>), !.name = <<"Villa", " ", "Three">>,
         !.locationName = <<"Laguna">>, !.price = Peso(5000000),
         !.bedrooms = JNum(T(4)),
         !.unitConfiguration = <<Unit(Peso(9000000), JNum(T(2)))>>,
         !.description = <<"swimming", " ", "pool", ".", "garden">>,
         !.location = Coords(142, 1210)]

P4 == [BaseListing EXCEPT !.id = JStr(<<"4">>), !.name = <<"Loft", " ", "Four">>,
         !.locationName = <<"Makati">>, !.price = Peso(9000000)]

P5 == [BaseListing EXCEPT !.id = JStr(<<"5">>), !.name = <<"Cebu", " ", "Five">>,
         !.locationName = <<"Cebu">>, !.price = Peso(5000000),
         !.bedrooms = JNum(T(3)), !.location = Coords(103, 1239)]

Pool == {P1, P2, P3, P4, P5}

MaxCatalog == 2

RECURSIVE SeqsUpTo(_, _)
SeqsUpTo(set, n) ==
  IF n = 0 THEN {<<>>}
  ELSE LET shorter == SeqsUpTo(set, n - 1)
       IN shorter \cup {Append(q, x) : q \in {r \in shorter : Len(r) = n - 1}, x \in set}

Catalogs == SeqsUpTo(Pool, MaxCatalog)

DefaultFlags ==
  [needsClarification |-> FALSE, unrealisticPrice |-> FALSE,
   priceOutlier |-> "null", rangeIssue |-> "null"]

BaseParams ==
  [query |-> JNull, filter_location |-> JNull, filter_ptype |-> JNull,
   filter_developer |-> JNull, filter_project |-> JNull,
   must_have_amenities |-> JNull, min_price |-> JNull, max_price |-> JNull,
   min_bedrooms |-> JNull, max_bedrooms |-> JNull, min_bathrooms |-> JNull,
   max_bathrooms |-> JNull, requested_count |-> JNull, sort_by |-> "null",
   price |-> JNull, excludedPropertyIds |-> JNull]

Request(shape, params, flags, outerExcluded) ==
  [shape |-> shape, params |-> params, flags |-> flags,
   excludedPropertyIds |-> outerExcluded]

GeocodeReplies == {JNull, Coords(145, 1210)}

\* ------------------------------------------------------------------------
\* State
\* ------------------------------------------------------------------------
VARIABLES
  pc,            \* position of the search handler
  request,       \* the raw criteria the tool was called with
  catalog,       \* what the content API holds
  norm,          \* criteria, flags, exclusion ids and limit after normalisation
  items,         \* the fetched catalog
  queryCoords,   \* reply of the geocoder
  built,         \* passes run and strict-pass list of buildStrictCandidates
  result,        \* what the tool returned
  fetchCalls,    \* calls to the content API
  geocodeCalls,  \* calls to the geocoder
  filterRuns,    \* executions of buildStrictCandidates
  previous,      \* what the call before this one returned, and how
  rpc,           \* position of the rerank handler
  rerankInput,   \* criteria and candidates the rerank tool was called with
  queryEmbedding,\* embedding of the query text
  embedOutcome,  \* what rankByEmbeddings reported: "none", "ok" or "failed"
  embedCalls,    \* calls to the embeddings API
  llmCalls,      \* calls to the generative model
  llmOutput,     \* finalOutput of the generative model
  ranking,       \* what the rerank tool returned
  handlers,      \* the chat requests in flight: inputs, position, conversation id
  conversationIdByClient, \* the module-level cache of the chat endpoint
  conversationsCreated    \* conversations created so far

searchVars == <<pc, request, catalog, norm, items, queryCoords, built, result,
                fetchCalls, geocodeCalls, filterRuns, previous>>

rerankVars == <<rpc, rerankInput, queryEmbedding, embedOutcome, embedCalls,
                llmCalls, llmOutput, ranking>>

chatVars == <<handlers, conversationIdByClient, conversationsCreated>>

vars == <<searchVars, rerankVars, chatVars>>

Nothing == [k |-> "none"]

\* the cache is empty when the module is loaded; no chat request in flight
ChatClients == {"default", "c1"}

ChatIdle ==
  /\ handlers = <<>>
  /\ conversationIdByClient = [c \in ChatClients |-> JNull]
  /\ conversationsCreated = 0

RerankIdle ==
  /\ rpc = "idle"
  /\ rerankInput = Nothing
  /\ queryEmbedding = Nothing
  /\ embedOutcome = "none"
  /\ embedCalls = 0
  /\ llmCalls = 0
  /\ llmOutput = Nothing
  /\ ranking = Nothing

InitWith(req, cat) ==
  /\ RerankIdle
  /\ ChatIdle
  /\ pc = "start"
  /\ request = req
  /\ catalog = cat
  /\ norm = Nothing
  /\ items = <<>>
  /\ queryCoords = JNull
  /\ built = Nothing
  /\ result = Nothing
  /\ fetchCalls = 0
  /\ geocodeCalls = 0
  /\ filterRuns = 0
  /\ previous = Nothing

\* ------------------------------------------------------------------------
\* searchPropertiesTool.execute, one action per stretch between awaits
\* ------------------------------------------------------------------------
RejectWith(n) ==
  /\ EarlyReturn(n).message # "none"
  /\ norm' = n
  /\ result' = [results |-> <<>>, message |-> EarlyReturn(n).message,
                flags |-> EarlyReturn(n).flags]

\* normalisation ending in one of the early returns
SearchReject ==
  /\ pc = "start"
  /\ RejectWith(Normalize(request))
  /\ pc' = "done"
  /\ UNCHANGED <<rerankVars, chatVars, previous>>
  /\ UNCHANGED <<request, catalog, items, queryCoords, built, fetchCalls,
                 geocodeCalls, filterRuns>>

AcceptWith(n) ==
  /\ EarlyReturn(n).message = "none"
  /\ norm' = n

\* normalisation passing every gate: the tool goes on to fetch
SearchAccept ==
  /\ pc = "start"
  /\ AcceptWith(Normalize(request))
  /\ pc' = "fetch"
  /\ UNCHANGED <<rerankVars, chatVars, previous>>
  /\ UNCHANGED <<request, catalog, items, queryCoords, built, result, fetchCalls,
                 geocodeCalls, filterRuns>>

\* the fetch keeping the records of the call before
fetchedRecordsKept(content, held) == IF held # <<>> THEN held ELSE content

\* the records a fetch returns: parsed anew from the response body on every
\* call, whatever records an earlier call still holds
fetchedRecords(content, held) == content

\* fetchPropertiesFromDatoCMS returns; buildStrictCandidates starts and
\* geocodes the first requested location when there is one
FetchCatalog ==
  /\ pc = "fetch"
  /\ items' = fetchedRecords(catalog, items)
  /\ fetchCalls' = fetchCalls + 1
  /\ pc' = IF firstLocation(norm.criteria) # <<>> THEN "geocode" ELSE "filter"
  /\ UNCHANGED <<rerankVars, chatVars, previous>>
  /\ UNCHANGED <<request, catalog, norm, queryCoords, built, result,
                 geocodeCalls, filterRuns>>

\* fetchPropertiesFromDatoCMS throws (no token, HTTP or GraphQL error)
FetchFails ==
  /\ pc = "fetch"
  /\ fetchCalls' = fetchCalls + 1
  /\ pc' = "raised"
  /\ UNCHANGED <<rerankVars, chatVars, previous>>
  /\ UNCHANGED <<request, catalog, norm, items, queryCoords, built, result,
                 geocodeCalls, filterRuns>>

\* geocodeLocation returns coordinates, or null on no match or error
Geocode ==
  /\ pc = "geocode"
  /\ \E reply \in GeocodeReplies : queryCoords' = reply
  /\ geocodeCalls' = geocodeCalls + 1
  /\ pc' = "filter"
  /\ UNCHANGED <<rerankVars, chatVars, previous>>
  /\ UNCHANGED <<request, catalog, norm, items, built, result, fetchCalls,
                 filterRuns>>

ReturnBuilt(b) ==
  /\ built' = [strict |-> b.strict, ran |-> b.ran, sizes |-> b.sizes, kept |-> b.kept]
  /\ items' = markDistances(items, b.geo, queryCoords)
  /\ result' = [candidates |-> b.candidates,
                count |-> Len(b.candidates),
                referenceLocation |-> queryCoords,
                flags |-> norm.flags,
                requestedCount |-> norm.limit]

\* the rest of buildStrictCandidates and the tool's return
Filter ==
  /\ pc = "filter"
  /\ ReturnBuilt(buildStrictCandidates(items, norm.criteria, norm.excludedIds,
                                       norm.limit, queryCoords))
  /\ filterRuns' = filterRuns + 1
  /\ pc' = "done"
  /\ UNCHANGED <<rerankVars, chatVars, previous>>
  /\ UNCHANGED <<request, catalog, norm, queryCoords, fetchCalls, geocodeCalls>>

Next ==
  \/ SearchReject
  \/ SearchAccept
  \/ FetchCatalog
  \/ FetchFails
  \/ Geocode
  \/ Filter

\* ------------------------------------------------------------------------
\* Requests exercising the filter cascade
\* ------------------------------------------------------------------------
CascadeLocations == {JNull, JStr(<<"Makati">>), JStr(<<"Makati", ",", " ", "Taguig">>)}

CascadeAmenities == {JNull, JArr(<<JStr(<<"swimming_pool">>)>>)}

CascadePrices ==
  {<<JNull, JNull>>, <<JNull, Peso(4000000)>>, <<Peso(4000000), Peso(6000000)>>}

CascadeQueries == {JNull, JStr(<<"condo", " ", "near", " ", "Makati">>)}

\* shape, envelope-level exclusion ids, criteria-level exclusion ids
CascadeExclusions ==
  {<<"wrapped", JNull, JNull>>,
   <<"wrapped", JArr(<<JNum(T(1))>>), JNull>>,
   <<"wrapped", JNull, JArr(<<JStr(<<"4">>)>>)>>,
   <<"flat", JNull, JArr(<<JNum(T(1)), JStr(<<"1">>)>>)>>}

CascadeRequests ==
  {Request(ex[1],
           [BaseParams EXCEPT !.filter_location = loc, !.must_have_amenities = am,
                              !.min_price = pr[1], !.max_price = pr[2],
                              !.query = q, !.excludedPropertyIds = ex[3]],
           DefaultFlags, ex[2]) :
     loc \in CascadeLocations, am \in CascadeAmenities, pr \in CascadePrices,
     q \in CascadeQueries, ex \in CascadeExclusions}

CascadeGateRequests ==
  {Request("wrapped", [BaseParams EXCEPT !.query = JStr(<<"NOT_REAL_ESTATE">>)],
           DefaultFlags, JNull)}

InitCascade ==
  \E req \in CascadeRequests \cup CascadeGateRequests, cat \in Catalogs :
    InitWith(req, cat)

SpecCascade == InitCascade /\ [][Next]_vars

\* ------------------------------------------------------------------------
\* Requests exercising every hard filter of the strict pass
\* ------------------------------------------------------------------------
StrictPrices ==
  {<<JNull, JNull>>, <<JNull, Peso(6000000)>>, <<Peso(4000000), Peso(6000000)>>}

StrictBedrooms == {<<JNull, JNull>>, <<JNum(T(2)), JNum(T(3))>>, <<JNull, JNum(T(1))>>}

StrictTypes == {JNull, JStr(<<"condo">>)}

StrictDevelopers == {JNull, JStr(<<"Ayala">>)}

StrictProjects == {JNull, JArr(<<JStr(<<"Tower">>), JStr(<<"park", " ", "two">>)>>)}

StrictRequests ==
  {Request("wrapped",
           [BaseParams EXCEPT !.filter_location = loc, !.must_have_amenities = am,
                              !.min_price = pr[1], !.max_price = pr[2],
                              !.min_bedrooms = bd[1], !.max_bedrooms = bd[2],
                              !.min_bathrooms = bd[1], !.filter_ptype = ty,
                              !.filter_developer = dv, !.filter_project = pj],
           DefaultFlags, JNull) :
     loc \in {JNull, JStr(<<"Makati">>)}, am \in CascadeAmenities,
     pr \in StrictPrices, bd \in StrictBedrooms, ty \in StrictTypes,
     dv \in StrictDevelopers, pj \in StrictProjects}

InitStrict ==
  \E req \in StrictRequests \cup CascadeGateRequests, cat \in Catalogs :
    InitWith(req, cat)

SpecStrict == InitStrict /\ [][Next]_vars

\* ------------------------------------------------------------------------
\* Properties of the filter cascade
\* ------------------------------------------------------------------------
Filtered == pc = "done" /\ built # Nothing

LocationRequested == norm.criteria.filter_location # <<>>

IdsOf(list) == [i \in 1..Len(list) |-> list[i].id]

\* C1: the amenity-relaxed, price-relaxed and geo-fallback passes each run
\* only when a location was requested and every earlier pass left the
\* candidate list empty; without a requested location only the strict pass
\* runs and the result is the strict-pass list (deduplicated, capped), of
\* count 0 when nothing matches strictly.
CascadeStopsAtFirstHit ==
  Filtered =>
    /\ "amenity" \in built.ran => LocationRequested /\ built.sizes[1] = 0
    /\ "price" \in built.ran => LocationRequested /\ built.sizes[2] = 0
    /\ "geo" \in built.ran => LocationRequested /\ built.sizes[3] = 0
    /\ ~LocationRequested =>
         /\ built.ran = {"strict"}
         /\ IdsOf(result.candidates)
              = IdsOf(Cap(SortCandidates(Dedupe(built.strict), norm.criteria.sort_by),
                          norm.limit))
         /\ (built.strict = <<>> => result.count = 0)

\* the amenity-relaxed pass ran, found candidates and stopped the cascade
\* although the query asked for proximity and geocoding had succeeded
CascadeStopsWitness ==
  /\ Filtered
  /\ "amenity" \in built.ran
  /\ built.sizes[2] > 0
  /\ ~IsNullish(queryCoords) /\ isNearbyQuery(norm.criteria.query)
  /\ "geo" \notin built.ran
  /\ result.count > 0

\* the numeric values a listing offers for a field: its own and its units',
\* a missing value read as 0
ListingValues(l, listingField, unitField) ==
  {NumberOf(l[listingField]).v}
    \cup {NumberOf(l.unitConfiguration[i][unitField]).v :
            i \in 1..Len(l.unitConfiguration)}

InRange(v, lo, hi) ==
  /\ (IsNum(lo) => v >= lo.v)
  /\ (IsNum(hi) => v <= hi.v)

ViolatesRange(l, listingField, unitField, lo, hi) ==
  /\ IsNum(lo) \/ IsNum(hi)
  /\ \A v \in ListingValues(l, listingField, unitField) : ~InRange(v, lo, hi)

RequestedList(j) ==
  IF j.k = "arr" THEN {ToLower(Trim(j.a[i].s)) : i \in 1..Len(j.a)} ELSE {}

ViolatesNames(names, wanted) ==
  /\ wanted # {}
  /\ \A w \in wanted : \A n \in names :
       ~Includes(ToLower(n), w) /\ ~Includes(w, ToLower(n))

ViolatesType(l, c) ==
  LET types == {l.unitConfiguration[i].unitType : i \in 1..Len(l.unitConfiguration)}
      lot == \E i \in 1..Len(l.unitConfiguration) :
               IsNum(l.unitConfiguration[i].lotArea)
                 /\ l.unitConfiguration[i].lotArea.v > 0
  IN \/ c.filter_ptype = <<"condo">> /\ types \cap CONDO_UNIT_TYPES = {}
     \/ c.filter_ptype = <<"house">> /\ ~lot /\ <<"house_and_lot">> \notin types

AmenityTexts(l) ==
  Range(l.searchTags) \cup Range(l.secondaryTags)
    \cup {l.amenitiesAndCommonFacilities, l.buildingAmenities, l.unitFeatures,
          l.description, l.summary}
    \cup {l.unitConfiguration[i].unitFeatures : i \in 1..Len(l.unitConfiguration)}

ViolatesAmenities(l, c) ==
  \E a \in RequestedList(c.must_have_amenities) :
    \A syn \in amenitySynonyms(a) : \A t \in AmenityTexts(l) : ~Includes(ToLower(t), syn)

RequestedLocations(c) ==
  LET parts == Split(c.filter_location, {","})
  IN {ToLower(Trim(parts[i])) : i \in 1..Len(parts)} \ {<<>>}

ViolatesLocation(l, c) ==
  /\ RequestedLocations(c) # {}
  /\ \A loc \in RequestedLocations(c) :
       \A t \in {l.locationName, l.project.name, l.developer.fullName, l.name} :
         ~Includes(ToLower(t), loc)

ViolatesHardFilter(l, c) ==
  \/ ViolatesRange(l, "price", "configPrice", c.min_price, c.max_price)
  \/ ViolatesRange(l, "bedrooms", "bedrooms", c.min_bedrooms, c.max_bedrooms)
  \/ ViolatesRange(l, "bathrooms", "bathrooms", c.min_bathrooms, c.max_bathrooms)
  \/ ViolatesType(l, c)
  \/ ViolatesNames({l.developer.fullName, l.developer.shortName, l.developer.slug,
                    l.developerName, l.project.devFullName, l.project.devShortName,
                    l.project.devSlug} \ {<<>>},
                   RequestedList(c.filter_developer))
  \/ ViolatesNames({l.project.name, l.projectName, l.name} \ {<<>>},
                   RequestedList(c.filter_project))
  \/ ViolatesAmenities(l, c)
  \/ ViolatesLocation(l, c)

RequestExcludedTexts ==
  {StringOf(x) : x \in Range(arrayify(request.params.excludedPropertyIds))
                         \cup (IF request.shape = "wrapped"
                               THEN Range(arrayify(request.excludedPropertyIds))
                               ELSE {})}

\* C3: no returned candidate has an id that, as a string, equals an
\* exclusion id given in the envelope or inside the criteria, whichever
\* pass produced the result.
NoExcludedCandidate ==
  Filtered =>
    \A i \in 1..Len(result.candidates) :
      StringOf(result.candidates[i].id) \notin RequestExcludedTexts

\* a relaxed pass produced the result while the catalog held a listing
\* excluded by a criteria-level id
NoExcludedWitness ==
  /\ Filtered
  /\ built.ran # {"strict"}
  /\ result.count > 0
  /\ \E it \in Range(items) :
       StringOf(it.id) \in {StringOf(x) :
                              x \in Range(arrayify(request.params.excludedPropertyIds))}

\* ------------------------------------------------------------------------
\* The numeric-range predicates applied to one listing
\* ------------------------------------------------------------------------
M1 == [BaseListing EXCEPT !.id = JStr(<<"6">>), !.name = <<"Bare", " ", "Six">>]

M2 == [BaseListing EXCEPT !.id = JStr(<<"7">>), !.name = <<"Seven">>,
         !.price = Peso(5000000), !.bedrooms = JNum(T(3)), !.bathrooms = JNum(T(2)),
         !.unitConfiguration = <<BaseUnit>>]

MeetsListings == Pool \cup {M1, M2}

MeetsPrices ==
  {<<JNull, JNull>>, <<JNull, Peso(6000000)>>, <<Peso(4000000), Peso(6000000)>>,
   <<Peso(4000000), JNull>>, <<Peso(7000000), JNull>>}

MeetsCounts ==
  {<<JNull, JNull>>, <<JNum(T(2)), JNum(T(3))>>, <<JNull, JNum(T(1))>>,
   <<JNum(T(3)), JNull>>, <<JNum(0), JNum(0)>>}

MeetsRequests ==
  {Request("flat",
           [BaseParams EXCEPT !.min_price = pr[1], !.max_price = pr[2],
                              !.min_bedrooms = bd[1], !.max_bedrooms = bd[2],
                              !.min_bathrooms = bd[1], !.max_bathrooms = bd[2]],
           DefaultFlags, JNull) :
     pr \in MeetsPrices, bd \in MeetsCounts}

InitMeets ==
  \E req \in MeetsRequests, l \in MeetsListings : InitWith(req, <<l>>)

MeetsWith(n) ==
  /\ norm' = n
  /\ result' = [k |-> "meets",
                price |-> propertyMeetsPrice(catalog[1], n.criteria),
                bedrooms |-> propertyMeetsBedrooms(catalog[1], n.criteria),
                bathrooms |-> propertyMeetsBathrooms(catalog[1], n.criteria)]

\* propertyMeetsPrice, propertyMeetsBedrooms and propertyMeetsBathrooms on
\* the one listing of the catalog
EvalMeets ==
  /\ pc = "start"
  /\ MeetsWith(Normalize(request))
  /\ pc' = "done"
  /\ UNCHANGED <<rerankVars, chatVars, previous>>
  /\ UNCHANGED <<request, catalog, items, queryCoords, built, fetchCalls,
                 geocodeCalls, filterRuns>>

NextMeets == EvalMeets

SpecMeets == InitMeets /\ [][NextMeets]_vars

MeetsDone == pc = "done" /\ result.k = "meets"

SomeValueInRange(l, listingField, unitField, lo, hi) ==
  \E v \in ListingValues(l, listingField, unitField) : InRange(v, lo, hi)

UnitValues(l, unitField) ==
  {NumberOf(l.unitConfiguration[i][unitField]).v : i \in 1..Len(l.unitConfiguration)}

\* C4 as stated: for price, bedrooms and bathrooms alike a listing matches
\* an active range filter exactly when its listing-level value or the value
\* of one of its units lies in the range.
MeetsOrOverUnits ==
  MeetsDone =>
    LET l == catalog[1]
        c == norm.criteria
    IN /\ (IsNum(c.min_price) \/ IsNum(c.max_price)) =>
            (result.price <=>
               SomeValueInRange(l, "price", "configPrice", c.min_price, c.max_price))
       /\ (IsNum(c.min_bedrooms) \/ IsNum(c.max_bedrooms)) =>
            (result.bedrooms <=>
               SomeValueInRange(l, "bedrooms", "bedrooms", c.min_bedrooms,
                                c.max_bedrooms))
       /\ (IsNum(c.min_bathrooms) \/ IsNum(c.max_bathrooms)) =>
            (result.bathrooms <=>
               SomeValueInRange(l, "bathrooms", "bathrooms", c.min_bathrooms,
                                c.max_bathrooms))

\* C4 amended: bedrooms and bathrooms match exactly when the listing-level
\* value or the value of one unit lies in the range; price matches exactly
\* when one unit price lies in the range if the listing has units, and when
\* the listing-level price lies in the range if it has none; a missing
\* (null) value is compared as 0.
MeetsUnitsDecidePrice ==
  MeetsDone =>
    LET l == catalog[1]
        c == norm.criteria
    IN /\ (IsNum(c.min_price) \/ IsNum(c.max_price)) =>
            (result.price <=>
               IF l.unitConfiguration # <<>>
               THEN \E v \in UnitValues(l, "configPrice") :
                      InRange(v, c.min_price, c.max_price)
               ELSE InRange(NumberOf(l.price).v, c.min_price, c.max_price))
       /\ (IsNum(c.min_bedrooms) \/ IsNum(c.max_bedrooms)) =>
            (result.bedrooms <=>
               SomeValueInRange(l, "bedrooms", "bedrooms", c.min_bedrooms,
                                c.max_bedrooms))
       /\ (IsNum(c.min_bathrooms) \/ IsNum(c.max_bathrooms)) =>
            (result.bathrooms <=>
               SomeValueInRange(l, "bathrooms", "bathrooms", c.min_bathrooms,
                                c.max_bathrooms))

\* a listing whose own price lies in the range while no unit price does is
\* rejected on price, and matches on bedrooms through a unit alone
MeetsWitness ==
  /\ MeetsDone
  /\ catalog[1].unitConfiguration # <<>>
  /\ IsNum(norm.criteria.min_price) /\ IsNum(norm.criteria.max_price)
  /\ InRange(NumberOf(catalog[1].price).v, norm.criteria.min_price,
             norm.criteria.max_price)
  /\ ~result.price
  /\ IsNum(norm.criteria.min_bedrooms)
  /\ ~InRange(NumberOf(catalog[1].bedrooms).v, norm.criteria.min_bedrooms,
              norm.criteria.max_bedrooms)
  /\ result.bedrooms

\* ------------------------------------------------------------------------
\* Requests exercising the requested result count
\* ------------------------------------------------------------------------
CountNone == {JNull}

CountNonPositive ==
  {JNum(0), JNum(T(0 - 1)), JStr(<<"-", "3">>), JStr(<<"top", "-", "5">>)}

CountUnparseable ==
  {JStr(<<"a", "b", "c">>), JStr(<<"-">>), JStr(<<"1", "-", "2">>), JBool(TRUE)}

CountGiven ==
  {JNum(T(1)), JNum(T(2)), JNum(25), JNum(4), JNum(T(10)), JNum(T(11)), JNum(T(50)),
   JStr(<<"5">>), JStr(<<"2", " ", "results">>), JStr(<<"1", ".", "5">>),
   JStr(<<".", "5">>)}

CountRequests ==
  {Request("wrapped",
           [BaseParams EXCEPT !.requested_count = n, !.filter_location = loc],
           DefaultFlags, JNull) :
     n \in CountNone \cup CountNonPositive \cup CountUnparseable \cup CountGiven,
     loc \in {JNull, JStr(<<"Makati">>)}}

InitCount ==
  \E req \in CountRequests \cup CascadeGateRequests, cat \in Catalogs :
    InitWith(req, cat)

SpecCount == InitCount /\ [][Next]_vars

\* C5: the number of candidates returned by search is at most
\* min(requestedCount, 12); the effective requestedCount is an integer in
\* 1..10, and is 3 when the request gives no count, a non-positive one or an
\* unparseable one.
CountWithinLimit ==
  Filtered =>
    /\ T(result.count) <= Min2(norm.limit, T(MaxPayload))
    /\ Len(result.candidates) = result.count
    /\ result.requestedCount = norm.limit
    /\ norm.limit % 10 = 0
    /\ T(1) <= norm.limit /\ norm.limit <= T(MaxCount)
    /\ (request.params.requested_count
          \in CountNone \cup CountNonPositive \cup CountUnparseable
        => norm.limit = T(DefaultCount))

\* two listings pass the strict filter and a requested count of 1 cuts the
\* result to one candidate
CountWitness ==
  /\ Filtered
  /\ Len(built.strict) = 2
  /\ request.params.requested_count = JNum(T(1))
  /\ norm.limit = T(1)
  /\ result.count = 1

\* ------------------------------------------------------------------------
\* Requests exercising the validation gates
\* ------------------------------------------------------------------------
GateFlags ==
  {[needsClarification |-> nc, unrealisticPrice |-> up, priceOutlier |-> "null",
    rangeIssue |-> ri] :
     nc \in BOOLEAN, up \in BOOLEAN, ri \in {"null", "MIN_GREATER_THAN_MAX"}}

GatePrices == {JNull, Peso(50000), Peso(5000000)}

GateBedrooms ==
  {<<JNull, JNull>>, <<JNum(T(3)), JNum(T(1))>>, <<JNum(T(0 - 1)), JNull>>}

GateQueries == {JNull, JStr(<<"NOT_REAL_ESTATE">>), JStr(<<"UNREALISTIC_DESCRIPTION">>)}

GateRequests ==
  {Request("wrapped",
           [BaseParams EXCEPT !.query = q, !.max_price = pr, !.min_bedrooms = bd[1],
                              !.max_bedrooms = bd[2], !.filter_location = loc],
           fl, JNull) :
     q \in GateQueries, pr \in GatePrices, bd \in GateBedrooms, fl \in GateFlags,
     loc \in {JNull, JStr(<<"Makati">>)}}

InitGate == \E req \in GateRequests, cat \in Catalogs : InitWith(req, cat)

SpecGate == InitGate /\ [][Next]_vars

Normalized == pc # "start"

FlagSet(flags) ==
  flags.needsClarification \/ flags.unrealisticPrice \/ flags.rangeIssue # "null"

GateMessages == {"NEEDS_CLARIFICATION", "UNREALISTIC_PRICE_QUERY", "INVALID_RANGE_QUERY"}

\* C10 as stated: whenever needsClarification, unrealisticPrice or
\* rangeIssue is set after normalization, search returns an empty result
\* carrying a message code and the flags, with no fetch and no filtering.
GateReturnsFlags ==
  (Normalized /\ FlagSet(norm.flags)) =>
    /\ pc = "done"
    /\ result.results = <<>>
    /\ result.message # "none"
    /\ result.flags = norm.flags
    /\ fetchCalls = 0 /\ filterRuns = 0

\* C10 amended: whenever needsClarification, unrealisticPrice or rangeIssue
\* is set after normalization, search returns an empty result with a message
\* code, with no fetch and no filtering; the result carries the flags unless
\* the query is one of the sentinel queries, whose early return comes first
\* and carries the sentinel's message code and no flags.
GateBlocksSearch ==
  (Normalized /\ FlagSet(norm.flags)) =>
    /\ pc = "done"
    /\ result.results = <<>>
    /\ fetchCalls = 0 /\ filterRuns = 0
    /\ IF norm.criteria.query \in SentinelQueries
       THEN /\ result.message = SentinelMessage(norm.criteria.query)
            /\ result.flags = NoFlags
       ELSE /\ result.message \in GateMessages
            /\ result.flags = norm.flags

\* a request whose flags arrive clear and whose inverted bedroom range sets
\* rangeIssue during normalization is answered by the range gate
GateWitness ==
  /\ pc = "done"
  /\ request.flags = DefaultFlags
  /\ norm.flags.rangeIssue = "MIN_GREATER_THAN_MAX"
  /\ norm.criteria.query \notin SentinelQueries
  /\ result.message = "INVALID_RANGE_QUERY"
  /\ result.flags = norm.flags
  /\ fetchCalls = 0

\* ------------------------------------------------------------------------
\* Ranking: the embedding strategy.  Similarities are kept in hundredths,
\* vectors are integer pairs whose norms are whole numbers.
\* ------------------------------------------------------------------------
Vec(x, y) == [k |-> "vec", v |-> <<x, y>>]

Undefined == [k |-> "undefined"]

Sqrt(x) == CHOOSE r \in 0..x : r * r = x

RECURSIVE Dot(_, _)
Dot(a, b) == IF a = <<>> THEN 0 ELSE Head(a) * Head(b) + Dot(Tail(a), Tail(b))

\* cosineSimilarity: 0 for a missing vector, unequal lengths or a zero norm
cosineSimilarity(vecA, vecB) ==
  IF vecA.k # "vec" \/ vecB.k # "vec" THEN 0
  ELSE IF Len(vecA.v) # Len(vecB.v) THEN 0
  ELSE LET normA == Dot(vecA.v, vecA.v)
           normB == Dot(vecB.v, vecB.v)
       IN IF normA = 0 \/ normB = 0 THEN 0
          ELSE (Dot(vecA.v, vecB.v) * 100) \div (Sqrt(normA) * Sqrt(normB))

\* Math.round(50 + similarity * 50)
embeddingScore(similarity) == (similarity + 101) \div 2

\* queryParts.join(' ')
RECURSIVE JoinSpace(_)
JoinSpace(l) ==
  IF Len(l) = 1 THEN l[1] ELSE l[1] \o <<" ">> \o JoinSpace(Tail(l))

\* the text embedded for the query: its parts joined by spaces
queryTextOf(params) ==
  LET parts == (IF params.query # <<>> THEN <<params.query>> ELSE <<>>)
               \o (IF params.filter_location # <<>>
                   THEN << <<"in", " ">> \o params.filter_location >> ELSE <<>>)
               \o (IF Truthy(params.min_bedrooms) THEN << <<"n", " ", "bedroom">> >>
                   ELSE <<>>)
               \o (IF params.filter_ptype # <<>> THEN <<params.filter_ptype>> ELSE <<>>)
      all == IF parts = <<>>
             THEN << <<"properties">> >>
                  \o (IF Truthy(params.must_have_amenities)
                      THEN << <<"with", " ", "amenities">> >> ELSE <<>>)
             ELSE parts
  IN JoinSpace(all)

hasPrecomputed(candidate) == candidate.embedding.k = "vec"

needsEmbedding(candidates) ==
  SeqFilter(candidates, [c \in Range(candidates) |-> ~hasPrecomputed(c)])

\* the parts of the reason given for one candidate
reasonPartsOf(candidate, params) ==
  (IF params.filter_location # <<>>
      /\ Includes(candidate.locationName, params.filter_location)
   THEN <<"Located in">>
   ELSE IF Truthy(candidate.distanceKm) THEN <<"km from your search area">>
   ELSE IF candidate.locationName # <<>> THEN <<"In">> ELSE <<>>)
  \o (IF params.min_bedrooms = candidate.bedrooms THEN <<"-bedroom as requested">>
      ELSE IF Truthy(candidate.bedrooms) THEN <<"-bedroom unit">> ELSE <<>>)
  \o (IF Truthy(params.max_price) /\ Truthy(candidate.price)
      THEN IF candidate.price.v * 10 <= params.max_price.v * 8
           THEN <<"excellent value">>
           ELSE IF candidate.price.v <= params.max_price.v THEN <<"within budget">>
           ELSE <<>>
      ELSE <<>>)
  \o (IF candidate.developer # <<>> THEN <<"by">> ELSE <<>>)

reasonOf(candidate, params, similarity) ==
  LET reasonParts == reasonPartsOf(candidate, params)
  IN IF Len(reasonParts) >= 2 THEN SubSeq(reasonParts, 1, Min2(3, Len(reasonParts)))
     ELSE IF similarity > 80 THEN <<"Excellent match: ">> \o reasonParts
     ELSE IF similarity > 60 THEN <<"Great option: ">> \o reasonParts
     ELSE <<"Quality property: ">> \o reasonParts

\* number of candidates before position i that have no embedding of their own
FreshBefore(candidates, i) ==
  Cardinality({j \in 1..(i - 1) : ~hasPrecomputed(candidates[j])})

VecAt(propertyEmbeddings, i) ==
  IF i <= Len(propertyEmbeddings) THEN propertyEmbeddings[i] ELSE Undefined

JMap(m) == [k |-> "map", m |-> m]

EmptyMap == JMap(<<>>)

\* the second half of rankByEmbeddings: score, reason, sort by similarity
\* descending, and the three outputs
scoreCandidates(candidates, params, qEmbedding, propertyEmbeddings) ==
  LET scored ==
        [i \in 1..Len(candidates) |->
           LET candidate == candidates[i]
               similarity ==
                 IF hasPrecomputed(candidate)
                 THEN cosineSimilarity(qEmbedding, candidate.embedding)
                 ELSE cosineSimilarity(qEmbedding,
                        VecAt(propertyEmbeddings, FreshBefore(candidates, i) + 1))
           IN [id |-> candidate.id, score |-> embeddingScore(similarity),
               similarity |-> similarity,
               reason |-> reasonOf(candidate, params, similarity)]]
      sorted == StableSortAsc(scored, [x \in Range(scored) |-> 0 - x.similarity])
      ids == {x.id : x \in Range(sorted)}
      lastWith(id) == CHOOSE i \in 1..Len(sorted) :
                        /\ sorted[i].id = id
                        /\ \A j \in (i + 1)..Len(sorted) : sorted[j].id # id
  IN [orderedIds |-> [k |-> "list", a |-> [i \in 1..Len(sorted) |-> sorted[i].id]],
      reasonsById |-> JMap([id \in ids |-> sorted[lastWith(id)].reason]),
      scoresById |-> JMap([id \in ids |-> sorted[lastWith(id)].score]),
      source |-> "embedding"]

\* ------------------------------------------------------------------------
\* Ranking: the reply of the generative model.  The reply text is a
\* sequence of pieces: a code fence, whitespace, prose, the text of one
\* complete JSON value, or an object cut short.
\* ------------------------------------------------------------------------
Fence == [k |-> "fence"]

Ws == [k |-> "ws"]

Prose == [k |-> "prose"]

\* an object cut short; closed when the cut comes after an inner "}"
Cut(closed) == [k |-> "cut", closed |-> closed]

Value(v) == [k |-> "value", v |-> v]

Absent == [k |-> "absent"]

JList(a) == [k |-> "list", a |-> a]

JObj(orderedIds, reasonsById, scoresById) ==
  [k |-> "obj", orderedIds |-> orderedIds, reasonsById |-> reasonsById,
   scoresById |-> scoresById]

\* output.replace(/```(?:json)?\s*/g, "")
RECURSIVE StripFences(_, _)
StripFences(text, afterFence) ==
  IF text = <<>> THEN <<>>
  ELSE IF Head(text).k = "fence" THEN StripFences(Tail(text), TRUE)
  ELSE IF Head(text).k = "ws" /\ afterFence THEN StripFences(Tail(text), TRUE)
  ELSE <<Head(text)>> \o StripFences(Tail(text), FALSE)

RECURSIVE TrimWs(_)
TrimWs(text) ==
  IF text = <<>> THEN <<>>
  ELSE IF Head(text).k = "ws" THEN TrimWs(Tail(text))
  ELSE IF text[Len(text)].k = "ws" THEN TrimWs(SubSeq(text, 1, Len(text) - 1))
  ELSE text

\* JSON.parse: the text must be exactly one JSON value; Undefined stands
\* for the SyntaxError
JsonParse(text) ==
  LET t == TrimWs(text)
  IN IF Len(t) = 1 /\ t[1].k = "value" THEN t[1].v ELSE Undefined

HasOpenBrace(piece) ==
  piece.k = "cut" \/ (piece.k = "value" /\ piece.v.k = "obj")

HasCloseBrace(piece) ==
  (piece.k = "cut" /\ piece.closed) \/ (piece.k = "value" /\ piece.v.k = "obj")

\* output.match(/\{[\s\S]*\}/): from the first "{" to the last "}"
jsonMatch(text) ==
  LET opens == {i \in 1..Len(text) : HasOpenBrace(text[i])}
      first == CHOOSE i \in opens : \A j \in opens : i <= j
      closes == {i \in 1..Len(text) : i >= first /\ HasCloseBrace(text[i])}
      last == CHOOSE i \in closes : \A j \in closes : j <= i
  IN IF opens = {} THEN Undefined
     ELSE IF closes = {} THEN Undefined
     ELSE JList(SubSeq(text, first, last))

identityOrder(candidates) == JList([i \in 1..Len(candidates) |-> candidates[i].id])

\* `parsed.reasonsById || {}`
MapOrEmpty(parsed, field) ==
  IF parsed.k = "obj" /\ parsed[field].k = "map" THEN parsed[field] ELSE EmptyMap

IsArrayOrderedIds(parsed) == parsed.k = "obj" /\ parsed.orderedIds.k = "list"

identityFallback(candidates) ==
  [orderedIds |-> identityOrder(candidates), reasonsById |-> EmptyMap,
   scoresById |-> EmptyMap, source |-> "identity"]

asReturned(parsed) ==
  [orderedIds |-> parsed.orderedIds, reasonsById |-> parsed.reasonsById,
   scoresById |-> parsed.scoresById, source |-> "llm"]

\* the catch branch: try the outermost braces, else the identity order
recoverFromText(output, candidates) ==
  LET m == jsonMatch(output)
      parsed == IF m.k = "list" THEN JsonParse(m.a) ELSE Undefined
  IN IF IsArrayOrderedIds(parsed) THEN asReturned(parsed)
     ELSE identityFallback(candidates)

\* the reply handling that returns whatever orderedIds the object holds
parseRerankReplyUnchecked(finalOutput, candidates) ==
  LET output == TrimWs(StripFences(finalOutput, FALSE))
      parsed == JsonParse(output)
  IN IF parsed.k = "obj" THEN asReturned(parsed)
     ELSE recoverFromText(output, candidates)

\* everything rerank does with finalOutput
parseRerankReply(finalOutput, candidates) ==
  LET output == TrimWs(StripFences(finalOutput, FALSE))
      parsed == JsonParse(output)
  IN IF parsed.k \in {"undefined", "null"} THEN recoverFromText(output, candidates)
     ELSE IF ~IsArrayOrderedIds(parsed)
     THEN [orderedIds |-> identityOrder(candidates),
           reasonsById |-> MapOrEmpty(parsed, "reasonsById"),
           scoresById |-> MapOrEmpty(parsed, "scoresById"),
           source |-> "identity"]
     ELSE asReturned(parsed)

\* ------------------------------------------------------------------------
\* rerankPropertiesTool.execute, one action per stretch between awaits
\* ------------------------------------------------------------------------
Unparseable == [k |-> "unparseable"]

\* JSON.parse(candidatesJson), [] when it throws
parseCandidates(candidatesJson) ==
  IF candidatesJson.k = "unparseable" THEN <<>> ELSE candidatesJson.a

\* the strategy that never tries the embeddings
UsesEmbeddingsNever(candidates) == FALSE

\* the middle tier: 4 to 10 candidates
UsesEmbeddings(candidates) == Len(candidates) >= 4 /\ Len(candidates) <= 10

RerankCandidates == parseCandidates(rerankInput.candidates)

RerankParams == rerankInput.criteria

\* the tool is entered with 4 to 10 candidates and a query text to embed
RerankStartEmbeddings ==
  /\ rpc = "start"
  /\ UsesEmbeddings(RerankCandidates)
  /\ Trim(queryTextOf(RerankParams)) # <<>>
  /\ rpc' = "embedQuery"
  /\ UNCHANGED <<rerankInput, queryEmbedding, embedOutcome, embedCalls, llmCalls,
                 llmOutput, ranking>>
  /\ UNCHANGED <<searchVars, chatVars>>

\* rankByEmbeddings gives up before any call: the query text is blank
RerankEmptyQueryText ==
  /\ rpc = "start"
  /\ UsesEmbeddings(RerankCandidates)
  /\ Trim(queryTextOf(RerankParams)) = <<>>
  /\ embedOutcome' = "failed"
  /\ rpc' = "llm"
  /\ UNCHANGED <<rerankInput, queryEmbedding, embedCalls, llmCalls, llmOutput,
                 ranking>>
  /\ UNCHANGED <<searchVars, chatVars>>

\* fewer than 4 or more than 10 candidates: straight to the generative model
RerankStartLlm ==
  /\ rpc = "start"
  /\ ~UsesEmbeddings(RerankCandidates)
  /\ rpc' = "llm"
  /\ UNCHANGED <<rerankInput, queryEmbedding, embedOutcome, embedCalls, llmCalls,
                 llmOutput, ranking>>
  /\ UNCHANGED <<searchVars, chatVars>>

QueryVector == Vec(3, 4)

\* getEmbeddings for the query: null on error, else the vectors returned
QueryEmbeddingReplies == {JNull, JList(<<>>), JList(<<QueryVector>>)}

\* getQueryEmbedding returns; without a vector rankByEmbeddings returns null
EmbedQueryReply ==
  /\ rpc = "embedQuery"
  /\ embedCalls' = embedCalls + 1
  /\ \E reply \in QueryEmbeddingReplies :
       IF reply.k = "list" /\ Len(reply.a) > 0
       THEN /\ queryEmbedding' = reply.a[1]
            /\ IF Len(needsEmbedding(RerankCandidates)) > 0
               THEN /\ rpc' = "embedCandidates"
                    /\ UNCHANGED <<embedOutcome, ranking>>
               ELSE /\ rpc' = "done"
                    /\ embedOutcome' = "ok"
                    /\ ranking' = scoreCandidates(RerankCandidates, RerankParams,
                                                  reply.a[1], <<>>)
       ELSE /\ embedOutcome' = "failed"
            /\ rpc' = "llm"
            /\ UNCHANGED <<queryEmbedding, ranking>>
  /\ UNCHANGED <<rerankInput, llmCalls, llmOutput>>
  /\ UNCHANGED <<searchVars, chatVars>>

CandidateVector(i) ==
  CASE i % 4 = 0 -> Vec(4, 3) [] i % 4 = 1 -> Vec(1, 0) [] i % 4 = 2 -> Vec(3, 4)
    [] OTHER -> Vec(0 - 3, 0 - 4)

\* getEmbeddings for the candidates: null on error, one vector each, all
\* alike, or fewer vectors than texts
CandidateEmbeddingReplies(n) ==
  {JNull, JList([i \in 1..n |-> CandidateVector(i)]), JList([i \in 1..n |-> Vec(0, 1)]),
   JList(<<Vec(3, 4)>>)}

\* the embeddings of the candidates arrive, or the call fails
EmbedCandidatesReply ==
  /\ rpc = "embedCandidates"
  /\ embedCalls' = embedCalls + 1
  /\ \E reply \in CandidateEmbeddingReplies(Len(needsEmbedding(RerankCandidates))) :
       IF reply.k = "list"
       THEN /\ embedOutcome' = "ok"
            /\ ranking' = scoreCandidates(RerankCandidates, RerankParams,
                                          queryEmbedding, reply.a)
            /\ rpc' = "done"
       ELSE /\ embedOutcome' = "failed"
            /\ rpc' = "llm"
            /\ UNCHANGED ranking
  /\ UNCHANGED <<rerankInput, queryEmbedding, llmCalls, llmOutput>>
  /\ UNCHANGED <<searchVars, chatVars>>

Reversed(seq) == [i \in 1..Len(seq) |-> seq[Len(seq) + 1 - i]]

MapOver(ids, v) == JMap([id \in Range(ids) |-> v])

\* a complete ranking, and rankings that miss ids, repeat one or name none
GoodObject(ids) == JObj(JList(Reversed(ids)), MapOver(ids, <<"fits">>), MapOver(ids, 90))

EmptyObject == JObj(JList(<<>>), EmptyMap, EmptyMap)

PartialObject(ids) ==
  JObj(JList(Tail(ids)), MapOver(Tail(ids), <<"fits">>), MapOver(Tail(ids), 90))

RepeatingObject(ids) ==
  JObj(JList(<<Head(ids)>> \o ids), MapOver(ids, <<"fits">>), Absent)

NoOrderObject(ids) == JObj(Absent, MapOver(ids, <<"fits">>), Absent)

TextOrderObject(ids) == JObj(JStr(<<"1">>), Absent, MapOver(ids, 90))

\* finalOutput of the generative model for candidates with these ids
LlmOutputs(ids) ==
  {<<>>,
   <<Prose>>,
   <<Cut(FALSE)>>,
   <<Cut(TRUE)>>,
   <<Value(JNull)>>,
   <<Value(JNum(T(7)))>>,
   <<Value(NoOrderObject(ids))>>,
   <<Value(TextOrderObject(ids))>>,
   <<Prose, Ws, Value(NoOrderObject(ids))>>,
   <<Value(EmptyObject)>>,
   <<Prose, Ws, Value(EmptyObject), Ws, Prose>>}
  \cup (IF ids = <<>> THEN {}
        ELSE {<<Value(GoodObject(ids))>>,
              <<Fence, Ws, Value(GoodObject(ids)), Ws, Fence>>,
              <<Prose, Ws, Value(GoodObject(ids))>>,
              <<Value(GoodObject(ids)), Ws, Value(GoodObject(ids))>>,
              <<Value(PartialObject(ids))>>,
              <<Value(RepeatingObject(ids))>>})

\* run(reranker, input) resolves and the reply is turned into the result
LlmReplies ==
  /\ rpc = "llm"
  /\ llmCalls' = llmCalls + 1
  /\ \E output \in LlmOutputs(identityOrder(RerankCandidates).a) :
       /\ llmOutput' = output
       /\ ranking' = parseRerankReply(output, RerankCandidates)
  /\ rpc' = "done"
  /\ UNCHANGED <<rerankInput, queryEmbedding, embedOutcome, embedCalls>>
  /\ UNCHANGED <<searchVars, chatVars>>

\* run(reranker, input) rejects: the await is outside every try block
LlmRaises ==
  /\ rpc = "llm"
  /\ llmCalls' = llmCalls + 1
  /\ rpc' = "raised"
  /\ UNCHANGED <<rerankInput, queryEmbedding, embedOutcome, embedCalls, llmOutput,
                 ranking>>
  /\ UNCHANGED <<searchVars, chatVars>>

NextRerank ==
  \/ RerankStartEmbeddings
  \/ RerankEmptyQueryText
  \/ RerankStartLlm
  \/ EmbedQueryReply
  \/ EmbedCandidatesReply
  \/ LlmReplies
  \/ LlmRaises

\* ------------------------------------------------------------------------
\* Rerank requests
\* ------------------------------------------------------------------------
MaxCandidates == 11

RerankListing(i) ==
  [BaseListing EXCEPT
     !.id = JStr(NatToText(i)),
     !.name = <<"Listing">>,
     !.locationName = IF i % 2 = 1 THEN <<"Makati">> ELSE <<"Taguig">>,
     !.price = IF i % 3 = 0 THEN JNull ELSE Peso(i * 1000000),
     !.bedrooms = JNum(T(1 + (i % 3))),
     !.developer = [fullName |-> IF i % 4 = 0 THEN <<>> ELSE <<"Ayala", " ", "Land">>,
                    shortName |-> <<>>, slug |-> <<>>]]

\* a slim candidate; the fourth one brings an embedding of its own
RerankCandidate(i) ==
  Slim(RerankListing(i)) @@ [embedding |-> IF i = 4 THEN Vec(1, 0) ELSE JNull]

RerankSizes == {0, 3, 4, 6, 10, MaxCandidates}

RerankCandidateLists ==
  {JList([i \in 1..n |-> RerankCandidate(i)]) : n \in RerankSizes} \cup {Unparseable}

RerankCriteria ==
  LET none == Normalize(Request("flat", BaseParams, DefaultFlags, JNull)).criteria
      full == Normalize(Request("flat",
                [BaseParams EXCEPT !.query = JStr(<<"condo">>),
                                   !.filter_location = JStr(<<"Makati">>),
                                   !.min_bedrooms = JNum(T(2)),
                                   !.max_price = Peso(6000000)],
                DefaultFlags, JNull)).criteria
  IN {none, full, [none EXCEPT !.query = <<" ">>]}

SearchIdle ==
  /\ pc = "idle"
  /\ request = Nothing
  /\ catalog = <<>>
  /\ norm = Nothing
  /\ items = <<>>
  /\ queryCoords = JNull
  /\ built = Nothing
  /\ result = Nothing
  /\ fetchCalls = 0
  /\ geocodeCalls = 0
  /\ filterRuns = 0
  /\ previous = Nothing

InitRerank ==
  /\ SearchIdle
  /\ ChatIdle
  /\ rpc = "start"
  /\ \E criteria \in RerankCriteria, candidates \in RerankCandidateLists :
       rerankInput = [criteria |-> criteria, candidates |-> candidates]
  /\ queryEmbedding = Nothing
  /\ embedOutcome = "none"
  /\ embedCalls = 0
  /\ llmCalls = 0
  /\ llmOutput = Nothing
  /\ ranking = Nothing

SpecRerank == InitRerank /\ [][NextRerank]_vars

\* ------------------------------------------------------------------------
\* Properties of rerank
\* ------------------------------------------------------------------------
RerankIds == identityOrder(RerankCandidates).a

Reranked == rpc = "done"

KeysOf(map) == IF map.k = "map" THEN DOMAIN map.m ELSE {}

EachIdOnce(list, ids) ==
  /\ Len(list) = Len(ids)
  /\ \A id \in Range(ids) : Cardinality({i \in 1..Len(list) : list[i] = id}) = 1

\* C6: whenever rerank returns the result of the embedding or the LLM
\* strategy, every input candidate id appears exactly once in orderedIds and
\* is a key of both scoresById and reasonsById (a strategy result that is
\* not so is replaced by the identity fallback before rerank returns).
RankingComplete ==
  (Reranked /\ ranking.source \in {"embedding", "llm"}) =>
    /\ ranking.orderedIds.k = "list"
    /\ EachIdOnce(ranking.orderedIds.a, RerankIds)
    /\ Range(RerankIds) \subseteq KeysOf(ranking.reasonsById)
    /\ Range(RerankIds) \subseteq KeysOf(ranking.scoresById)

\* C7: for 4 to 10 candidates the embedding strategy is invoked first and
\* the generative model is called only after the embedding strategy reported
\* failure, never after it succeeded; for more than 10 candidates the
\* generative model is called without any embedding call.
StrategyOrder ==
  /\ (Len(RerankCandidates) >= 4 /\ Len(RerankCandidates) <= 10) =>
       /\ (rpc = "llm" \/ llmCalls > 0) => embedOutcome = "failed"
       /\ rpc \in {"done", "raised"} => embedOutcome # "none"
  /\ embedOutcome = "ok" =>
       llmCalls = 0 /\ Reranked /\ ranking.source = "embedding"
  /\ Len(RerankCandidates) > 10 =>
       /\ embedCalls = 0 /\ embedOutcome = "none"
       /\ rpc \in {"done", "raised"} => llmCalls = 1

\* six candidates, the embeddings of the candidates could not be had, and
\* the generative model was called once, after the two embedding calls
StrategyOrderWitness ==
  /\ Reranked
  /\ Len(RerankCandidates) = 6
  /\ embedCalls = 2
  /\ embedOutcome = "failed"
  /\ llmCalls = 1
  /\ ranking.source = "llm"

\* C8: rerank never raises to its caller: when the call of the generative
\* model itself fails, rerank returns the identity order instead of
\* propagating the exception.
RerankNeverRaises == rpc # "raised"

LlmReplied == Reranked /\ llmCalls = 1

ReplyText == TrimWs(StripFences(llmOutput, FALSE))

ReplyUnparseable == JsonParse(ReplyText).k = "undefined"

ReplyLacksOrder ==
  JsonParse(ReplyText).k = "obj" /\ JsonParse(ReplyText).orderedIds.k # "list"

\* the text from the first "{" to the last "}" of the reply, parsed
EmbeddedValue ==
  IF jsonMatch(ReplyText).k = "list" THEN JsonParse(jsonMatch(ReplyText).a)
  ELSE Undefined

EmbedsRanking == EmbeddedValue.k = "obj" /\ EmbeddedValue.orderedIds.k = "list"

BestEffortMap(field) ==
  IF ReplyLacksOrder /\ JsonParse(ReplyText)[field].k = "map"
  THEN JsonParse(ReplyText)[field] ELSE EmptyMap

IdentityWithMaps ==
  /\ ranking.orderedIds = identityOrder(RerankCandidates)
  /\ ranking.reasonsById = BestEffortMap("reasonsById")
  /\ ranking.scoresById = BestEffortMap("scoresById")

\* C9 as stated: if the reply of the generative model cannot be parsed as
\* JSON, or parses to an object whose orderedIds is missing or not a list,
\* rerank returns the input candidate order, with empty or best-effort maps.
MalformedReplyGivesIdentity ==
  (LlmReplied /\ (ReplyUnparseable \/ ReplyLacksOrder)) => IdentityWithMaps

\* C9 amended: if the reply parses to an object whose orderedIds is missing
\* or not a list, or cannot be parsed as JSON and the text from its first
\* "{" to its last "}" is not a JSON object with a list orderedIds either,
\* rerank returns the input candidate order, with the reply's own maps where
\* the parsed object has them and empty maps otherwise; an unparseable reply
\* that embeds such an object is answered with that object's orderedIds and
\* maps, unchecked.
MalformedReplyGivesIdentityUnlessEmbedded ==
  (LlmReplied /\ (ReplyUnparseable \/ ReplyLacksOrder)) =>
    IF ReplyUnparseable /\ EmbedsRanking
    THEN /\ ranking.orderedIds = EmbeddedValue.orderedIds
         /\ ranking.reasonsById = EmbeddedValue.reasonsById
         /\ ranking.scoresById = EmbeddedValue.scoresById
    ELSE IdentityWithMaps

\* six candidates, a failed embedding call, a reply that is prose only: the
\* result is the input order with empty maps
MalformedReplyWitness ==
  /\ LlmReplied
  /\ Len(RerankCandidates) = 6
  /\ embedOutcome = "failed"
  /\ llmOutput = <<Prose>>
  /\ ranking.orderedIds = identityOrder(RerankCandidates)
  /\ ranking.reasonsById = EmptyMap
  /\ ranking.scoresById = EmptyMap

\* ------------------------------------------------------------------------
\* Requests carrying the sentinel queries of the query analyzer
\* ------------------------------------------------------------------------
\* the sentinel values the property query analyzer is instructed to emit
AnalyzerSentinels ==
  {<<"NOT_REAL_ESTATE">>, <<"UNREALISTIC_DESCRIPTION">>, <<"INVALID_LOCATION">>,
   <<"INVALID_PROPERTY_TYPE">>}

SentinelQueryValues ==
  {JNull, JStr(<<"condo">>)} \cup {JStr(q) : q \in AnalyzerSentinels}

SentinelRequests ==
  {Request(shape, [BaseParams EXCEPT !.query = q, !.filter_location = loc],
           DefaultFlags, JNull) :
     shape \in {"wrapped", "flat"}, q \in SentinelQueryValues,
     loc \in {JNull, JStr(<<"Makati">>)}}

InitSentinel == \E req \in SentinelRequests, cat \in Catalogs : InitWith(req, cat)

SpecSentinel == InitSentinel /\ [][Next]_vars

SentinelRequested ==
  /\ request.params.query.k = "str"
  /\ request.params.query.s \in AnalyzerSentinels

\* C11: whenever the query field of the criteria is one of the sentinel
\* values the query analyzer emits (NOT_REAL_ESTATE, UNREALISTIC_DESCRIPTION,
\* INVALID_LOCATION, INVALID_PROPERTY_TYPE), search ends with an empty result
\* carrying a message code and performs no catalog fetch and no filtering.
SentinelShortCircuits ==
  SentinelRequested =>
    /\ fetchCalls = 0
    /\ filterRuns = 0
    /\ pc \in {"start", "done"}
    /\ pc = "done" => (result.results = <<>> /\ result.message # "none")

\* ------------------------------------------------------------------------
\* Requests exercising the range and price-outlier normalisation
\* ------------------------------------------------------------------------

RangeMinPrices ==
  {JNull, Peso(50), Peso(5000000), Peso(9000000), Peso(210000000)}

RangeMaxPrices == {JNull, Peso(100), Peso(5000000), Peso(205000000)}

RangeBedrooms ==
  {<<JNull, JNull>>, <<JNum(T(3)), JNum(T(1))>>, <<JNum(T(1)), JNum(T(3))>>,
   <<JNum(T(0 - 1)), JNull>>}

RangeBathrooms == {<<JNull, JNull>>, <<JNum(T(2)), JNum(T(1))>>}

RangeFlags ==
  {[DefaultFlags EXCEPT !.priceOutlier = po, !.unrealisticPrice = up] :
     po \in {"null", "TOO_HIGH"}, up \in BOOLEAN}

RangeRequests ==
  {Request("wrapped",
           [BaseParams EXCEPT !.min_price = lo, !.max_price = hi,
                              !.min_bedrooms = bd[1], !.max_bedrooms = bd[2],
                              !.min_bathrooms = ba[1], !.max_bathrooms = ba[2],
                              !.filter_location = loc],
           fl, JNull) :
     lo \in RangeMinPrices, hi \in RangeMaxPrices, bd \in RangeBedrooms,
     ba \in RangeBathrooms, fl \in RangeFlags, loc \in {JNull, JStr(<<"Makati">>)}}

RangeCatalogs == {c \in Catalogs : Len(c) <= 1}

InitRange == \E req \in RangeRequests, cat \in RangeCatalogs : InitWith(req, cat)

SpecRange == InitRange /\ [][Next]_vars

GivenInverted(min, max) == IsInvertedRange(sanitizeNumber(min), sanitizeNumber(max))

GivenNegative(min, max) == IsNegativeRange(sanitizeNumber(min), sanitizeNumber(max))

Ordered(min, max) == (~IsNullish(min) /\ ~IsNullish(max)) => min.v <= max.v

BothNull(min, max) == IsNullish(min) /\ IsNullish(max)

PriceGivenInverted == GivenInverted(request.params.min_price, request.params.max_price)

BedroomsGivenInverted ==
  GivenInverted(request.params.min_bedrooms, request.params.max_bedrooms)

BathroomsGivenInverted ==
  GivenInverted(request.params.min_bathrooms, request.params.max_bathrooms)

RoomsGivenInvalid ==
  \/ BedroomsGivenInverted
  \/ BathroomsGivenInverted
  \/ GivenNegative(request.params.min_bedrooms, request.params.max_bedrooms)
  \/ GivenNegative(request.params.min_bathrooms, request.params.max_bathrooms)

\* C12: for all criteria with min_price > max_price before normalisation,
\* after normalisation both price bounds are null and rangeIssue is set; and
\* every range field (price, bedrooms, bathrooms) satisfies min <= max after
\* normalisation whenever both bounds are non-null.
InvertedRangesCleared ==
  Normalized =>
    /\ PriceGivenInverted =>
         /\ BothNull(norm.criteria.min_price, norm.criteria.max_price)
         /\ norm.flags.rangeIssue # "null"
    /\ Ordered(norm.criteria.min_price, norm.criteria.max_price)
    /\ Ordered(norm.criteria.min_bedrooms, norm.criteria.max_bedrooms)
    /\ Ordered(norm.criteria.min_bathrooms, norm.criteria.max_bathrooms)

\* C12 amended: bedrooms and bathrooms given with min > max come out of
\* normalisation with both bounds null and rangeIssue set, and both satisfy
\* min <= max whenever both bounds are non-null. The price range is not
\* range-checked: min_price > max_price is kept as given unless a price
\* outlier clears both bounds, and it never sets rangeIssue, which is set
\* only by the incoming flag or by a negative or inverted room range.
InvertedRoomRangesCleared ==
  Normalized =>
    /\ BedroomsGivenInverted =>
         /\ BothNull(norm.criteria.min_bedrooms, norm.criteria.max_bedrooms)
         /\ norm.flags.rangeIssue # "null"
    /\ BathroomsGivenInverted =>
         /\ BothNull(norm.criteria.min_bathrooms, norm.criteria.max_bathrooms)
         /\ norm.flags.rangeIssue # "null"
    /\ Ordered(norm.criteria.min_bedrooms, norm.criteria.max_bedrooms)
    /\ Ordered(norm.criteria.min_bathrooms, norm.criteria.max_bathrooms)
    /\ PriceGivenInverted =>
         IF norm.flags.priceOutlier # "null"
         THEN BothNull(norm.criteria.min_price, norm.criteria.max_price)
         ELSE /\ norm.criteria.min_price = sanitizeNumber(request.params.min_price)
              /\ norm.criteria.max_price = sanitizeNumber(request.params.max_price)
    /\ norm.flags.rangeIssue # "null" =>
         (request.flags.rangeIssue # "null" \/ RoomsGivenInvalid)

\* bedrooms 3 to 1 are cleared with MIN_GREATER_THAN_MAX while the price
\* range 9,000,000 to 5,000,000 of the same request is kept
InvertedRoomRangesWitness ==
  /\ Normalized
  /\ request.params.min_bedrooms = JNum(T(3))
  /\ request.params.max_bedrooms = JNum(T(1))
  /\ request.params.min_price = Peso(9000000)
  /\ request.params.max_price = Peso(5000000)
  /\ request.flags.priceOutlier = "null"
  /\ BothNull(norm.criteria.min_bedrooms, norm.criteria.max_bedrooms)
  /\ norm.flags.rangeIssue = "MIN_GREATER_THAN_MAX"
  /\ norm.criteria.min_price = Peso(9000000)
  /\ norm.criteria.max_price = Peso(5000000)

GivenMinPrice == sanitizeNumber(request.params.min_price)

GivenMaxPrice == sanitizeNumber(request.params.max_price)

TooLow(bound) == ~IsNullish(bound) /\ bound.v < T(100000)

TooHigh(bound) == ~IsNullish(bound) /\ bound.v > T(200000000)

Offending(bound) == TooLow(bound) \/ TooHigh(bound)

SideOf(bound) == IF TooLow(bound) THEN "TOO_LOW" ELSE "TOO_HIGH"

OffendingSides == {SideOf(b) : b \in {c \in {GivenMinPrice, GivenMaxPrice} : Offending(c)}}

FirstOffendingSide ==
  IF Offending(GivenMinPrice) THEN SideOf(GivenMinPrice) ELSE SideOf(GivenMaxPrice)

PricesClearedUnsearched ==
  /\ BothNull(norm.criteria.min_price, norm.criteria.max_price)
  /\ norm.flags.unrealisticPrice
  /\ fetchCalls = 0
  /\ filterRuns = 0
  /\ pc = "done"
  /\ result.results = <<>>

\* C13: if either price bound is below 100,000 or above 200,000,000,
\* normalisation clears both price bounds, sets unrealisticPrice and records
\* the offending side (TOO_LOW or TOO_HIGH) in priceOutlier, and no search
\* is made; min_price 50 with max_price 100 gives TOO_LOW.
PriceOutlierRecordsSide ==
  (Normalized /\ (Offending(GivenMinPrice) \/ Offending(GivenMaxPrice))) =>
     /\ PricesClearedUnsearched
     /\ norm.flags.priceOutlier \in OffendingSides

\* C13 amended: if either price bound is below 100,000 or above
\* 200,000,000, normalisation clears both price bounds and sets
\* unrealisticPrice, and no search is made; priceOutlier keeps the value the
\* incoming flags already carry and is otherwise the side of the offending
\* bound, min_price being looked at before max_price.
PriceOutlierKeepsIncomingSide ==
  (Normalized /\ (Offending(GivenMinPrice) \/ Offending(GivenMaxPrice))) =>
     /\ PricesClearedUnsearched
     /\ norm.flags.priceOutlier =
          IF request.flags.priceOutlier # "null" THEN request.flags.priceOutlier
          ELSE FirstOffendingSide

\* min_price 50 and max_price 100 with no incoming flag: TOO_LOW, both
\* bounds cleared, the search answered without a fetch
PriceOutlierWitness ==
  /\ pc = "done"
  /\ request.params.min_price = Peso(50)
  /\ request.params.max_price = Peso(100)
  /\ request.flags = DefaultFlags
  /\ PricesClearedUnsearched
  /\ norm.flags.priceOutlier = "TOO_LOW"
  /\ result.message = "UNREALISTIC_PRICE_QUERY"

\* ------------------------------------------------------------------------
\* Requests naming several locations, over catalogs with distinct ids
\* ------------------------------------------------------------------------
D6 == [BaseListing EXCEPT !.id = JStr(<<"6">>), !.name = <<"Taguig", " ", "Six">>,
         !.locationName = <<"Makati">>, !.price = Peso(7000000)]

DiversityPool == {P1, P2, P4, P5, D6}

MaxDiverse == 3

DistinctIds(cat) == \A i, j \in 1..Len(cat) : cat[i].id = cat[j].id => i = j

DiversityCatalogs == {c \in SeqsUpTo(DiversityPool, MaxDiverse) : DistinctIds(c)}

DiversityLocations ==
  {JNull, JStr(<<"Makati">>), JStr(<<"Makati", ",", " ", "Taguig">>),
   JStr(<<"Taguig", ",", "Makati">>)}

DiversityRequests ==
  {Request("wrapped",
           [BaseParams EXCEPT !.filter_location = loc, !.requested_count = n,
                              !.sort_by = so],
           DefaultFlags, JNull) :
     loc \in DiversityLocations, n \in {JNull, JNum(T(1)), JNum(T(2))},
     so \in {"null", "price_asc"}}

InitDiversity ==
  \E req \in DiversityRequests \cup CascadeGateRequests, cat \in DiversityCatalogs :
    InitWith(req, cat)

SpecDiversity == InitDiversity /\ [][Next]_vars

RequestedTokens == BuildFilters(norm.criteria).locationTokens

ListingOf(cand) == CHOOSE p \in Range(catalog) : p.id = cand.id

MatchesToken(cand, token) == Includes(LocationText(ListingOf(cand)), token)

\* every token is matched by a catalog listing of its own
EveryTokenHasMatch ==
  \E g \in [1..Len(RequestedTokens) -> 1..Len(catalog)] :
    /\ \A i, j \in 1..Len(RequestedTokens) : g[i] = g[j] => i = j
    /\ \A i \in 1..Len(RequestedTokens) :
         Includes(LocationText(catalog[g[i]]), RequestedTokens[i])

\* one returned listing for every token, no listing serving two tokens
OneListingPerToken(cands, tokens) ==
  /\ Len(cands) = Len(tokens)
  /\ \E f \in [1..Len(tokens) -> 1..Len(cands)] :
       /\ \A i, j \in 1..Len(tokens) : f[i] = f[j] => i = j
       /\ \A i \in 1..Len(tokens) : MatchesToken(cands[f[i]], tokens[i])

\* C14: with n >= 2 requested location tokens, a requested count equal to n
\* and at least one catalog match per token, the result after diversity
\* balancing and capping contains exactly one listing per requested token.
OnePerRequestedLocation ==
  (/\ Filtered
   /\ Len(RequestedTokens) >= 2
   /\ norm.limit = T(Len(RequestedTokens))
   /\ EveryTokenHasMatch) =>
     OneListingPerToken(result.candidates, RequestedTokens)

TokensMatchedBy(p) ==
  {i \in 1..Len(RequestedTokens) : Includes(LocationText(p), RequestedTokens[i])}

NoListingMatchesTwoTokens ==
  \A p \in Range(catalog) : Cardinality(TokensMatchedBy(p)) <= 1

\* C14 amended: with n >= 2 requested location tokens, a requested count
\* equal to n, at least one catalog match per token and no listing whose
\* text contains more than one of the tokens, the result after diversity
\* balancing and capping contains exactly one listing per requested token.
\* A listing containing several tokens counts for the first of them only.
OnePerRequestedLocationUnambiguous ==
  (/\ Filtered
   /\ Len(RequestedTokens) >= 2
   /\ norm.limit = T(Len(RequestedTokens))
   /\ EveryTokenHasMatch
   /\ NoListingMatchesTwoTokens) =>
     OneListingPerToken(result.candidates, RequestedTokens)

\* two Makati listings ahead of a Taguig one, two requested: balancing
\* returns the first Makati listing and the Taguig listing
OnePerRequestedLocationWitness ==
  /\ Filtered
  /\ catalog = <<P4, P1, P2>>
  /\ RequestedTokens = << <<"makati">>, <<"taguig">> >>
  /\ norm.limit = T(2)
  /\ IdsOf(result.candidates) = <<P4.id, P2.id>>

\* ------------------------------------------------------------------------
\* The cascade applied to its own output
\* ------------------------------------------------------------------------

\* buildStrictCandidates is handed the listings it returned, with the same
\* criteria, exclusions, limit and geocoder reply
Refilter ==
  /\ pc = "done"
  /\ built # Nothing
  /\ previous = Nothing
  /\ previous' = [candidates |-> result.candidates, ran |-> built.ran]
  /\ items' = built.kept
  /\ pc' = "filter"
  /\ UNCHANGED <<rerankVars, chatVars>>
  /\ UNCHANGED <<request, catalog, norm, queryCoords, built, result, fetchCalls,
                 geocodeCalls, filterRuns>>

NextRefilter ==
  \/ SearchReject
  \/ SearchAccept
  \/ FetchCatalog
  \/ FetchFails
  \/ Geocode
  \/ Filter
  \/ Refilter

SpecRefilter == InitCascade /\ [][NextRefilter]_vars

Refiltered == pc = "done" /\ previous # Nothing

\* C15: filtering is idempotent: running the filter cascade again, with the
\* same criteria, on the listings it returned yields the same listings, with
\* no further narrowing, whichever pass produced the first result.
FilterIdempotent ==
  Refiltered =>
    /\ result.candidates = previous.candidates
    /\ Range(IdsOf(built.kept)) = Range(IdsOf(items))

\* the first result came from the geo-fallback pass and filtering it again
\* returned the same listings
FilterIdempotentWitness ==
  /\ Refiltered
  /\ "geo" \in previous.ran
  /\ Len(previous.candidates) > 0
  /\ result.candidates = previous.candidates

\* the same for a first result of the price-relaxed pass
FilterIdempotentPriceWitness ==
  /\ Refiltered
  /\ "price" \in previous.ran
  /\ "geo" \notin previous.ran
  /\ Len(previous.candidates) > 0
  /\ result.candidates = previous.candidates

\* ------------------------------------------------------------------------
\* Catalogs repeating an id
\* ------------------------------------------------------------------------

\* a second record carrying the id of P1
D1 == [P2 EXCEPT !.id = P1.id, !.name = <<"Park", " ", "One">>]

RepeatPool == {P1, D1, P2, P3, P4}

RepeatCatalogs == SeqsUpTo(RepeatPool, MaxDiverse)

RepeatRequests ==
  {Request("wrapped",
           [BaseParams EXCEPT !.filter_location = loc, !.query = q,
                              !.min_price = pr[1], !.max_price = pr[2],
                              !.must_have_amenities = am,
                              !.requested_count = JNum(T(2))],
           DefaultFlags, JNull) :
     loc \in {JNull, JStr(<<"Makati">>), JStr(<<"Makati", ",", " ", "Taguig">>)},
     q \in CascadeQueries,
     pr \in {<<JNull, JNull>>, <<Peso(6000000), Peso(8000000)>>},
     am \in CascadeAmenities}

InitRepeat ==
  \E req \in RepeatRequests \cup CascadeGateRequests, cat \in RepeatCatalogs :
    InitWith(req, cat)

SpecRepeat == InitRepeat /\ [][Next]_vars

RepeatsAnId(list) == \E i, j \in 1..Len(list) : i # j /\ list[i].id = list[j].id

\* C16: the final candidate list contains no two entries with the same id,
\* for every catalog (including one that repeats an id), whichever pass
\* produced the candidates and whether or not diversity balancing replaced
\* the order.
NoRepeatedCandidateId == Filtered => ~RepeatsAnId(result.candidates)

\* a catalog holding two records with one id, both passing the filter: the
\* id is returned once
NoRepeatedCandidateIdWitness ==
  /\ Filtered
  /\ catalog = <<P1, D1, P2>>
  /\ RequestedTokens = << <<"makati">>, <<"taguig">> >>
  /\ built.ran = {"strict"}
  /\ Len(built.strict) = 3
  /\ IdsOf(result.candidates) = <<P1.id, P2.id>>

\* ------------------------------------------------------------------------
\* A second call of the tool after an earlier one over the same catalog
\* ------------------------------------------------------------------------
AgainRequests ==
  {Request("wrapped", [BaseParams EXCEPT !.filter_location = loc, !.query = q],
           DefaultFlags, JNull) :
     loc \in {JNull, JStr(<<"Makati">>)}, q \in CascadeQueries}

InitAgain ==
  \E req \in AgainRequests \cup CascadeGateRequests, cat \in Catalogs :
    InitWith(req, cat)

\* execute is called again: its locals start afresh; the records the earlier
\* call fetched are garbage the new call holds no reference to
SearchAgain ==
  /\ pc = "done"
  /\ previous = Nothing
  /\ previous' = [result |-> result, items |-> items,
                  ran |-> IF built = Nothing THEN {} ELSE built.ran]
  /\ \E req \in AgainRequests : request' = req
  /\ pc' = "start"
  /\ norm' = Nothing
  /\ queryCoords' = JNull
  /\ built' = Nothing
  /\ result' = Nothing
  /\ UNCHANGED <<rerankVars, chatVars>>
  /\ UNCHANGED <<catalog, items, fetchCalls, geocodeCalls, filterRuns>>

NextAgain ==
  \/ SearchReject
  \/ SearchAccept
  \/ FetchCatalog
  \/ FetchFails
  \/ Geocode
  \/ Filter
  \/ SearchAgain

SpecAgain == InitAgain /\ [][NextAgain]_vars

Unmarked(record) == [record EXCEPT !.distanceKm = JNull]

\* what a call over the content of the catalog returns for its own request
\* and geocoder reply
OwnInputsResult ==
  buildStrictCandidates(catalog, Normalize(request).criteria,
                        Normalize(request).excludedIds, Normalize(request).limit,
                        queryCoords).candidates

ResultFromOwnInputs ==
  Filtered => /\ norm = Normalize(request)
              /\ result.candidates = OwnInputsResult
              /\ result.count = Len(OwnInputsResult)

ShapeFlags ==
  {DefaultFlags, [DefaultFlags EXCEPT !.needsClarification = TRUE],
   [DefaultFlags EXCEPT !.priceOutlier = "TOO_LOW"],
   [DefaultFlags EXCEPT !.rangeIssue = "NEGATIVE_BEDROOMS"]}

ShapeExclusions ==
  {JNull, JArr(<<JNum(T(1))>>), JArr(<<JStr(<<"4">>), JNum(T(1)), JStr(<<"1">>)>>),
   JStr(<<"2">>)}

\* {apiSearchParams, flags, excludedPropertyIds}
ShapeRequests ==
  {Request("wrapped",
           [BaseParams EXCEPT !.filter_location = loc, !.max_price = hi,
                              !.min_bedrooms = JStr(<<"2">>)],
           fl, ex) :
     loc \in {JNull, JStr(<<"Makati">>)}, hi \in {JNull, Peso(6000000)},
     fl \in ShapeFlags, ex \in ShapeExclusions}

InitShape == \E req \in ShapeRequests, cat \in Catalogs : InitWith(req, cat)

\* {...apiSearchParams, flags, excludedPropertyIds}: one object holding the
\* criteria fields, the flags and the exclusion ids
Flattened(envelope) ==
  Request("flat",
          [envelope.params EXCEPT !.excludedPropertyIds = envelope.excludedPropertyIds],
          envelope.flags, JNull)

\* the tool is called again with the flattened form of the same envelope
SearchFlattened ==
  /\ pc = "done"
  /\ previous = Nothing
  /\ request.shape = "wrapped"
  /\ previous' = [result |-> result, norm |-> norm, queryCoords |-> queryCoords]
  /\ request' = Flattened(request)
  /\ pc' = "start"
  /\ norm' = Nothing
  /\ queryCoords' = JNull
  /\ built' = Nothing
  /\ result' = Nothing
  /\ UNCHANGED <<rerankVars, chatVars>>
  /\ UNCHANGED <<catalog, items, fetchCalls, geocodeCalls, filterRuns>>

NextShape ==
  \/ SearchReject
  \/ SearchAccept
  \/ FetchCatalog
  \/ FetchFails
  \/ Geocode
  \/ Filter
  \/ SearchFlattened

SpecShape == InitShape /\ [][NextShape]_vars

\* C18: for any criteria fields, flags and exclusion ids, passing them
\* wrapped in the analyzer envelope or flattened into a single object yields
\* the same normalised criteria, flags and exclusion set, hence the same
\* search result (for the same reply of the geocoder).
ShapesEquivalent ==
  (previous # Nothing /\ request.shape = "flat") =>
     /\ Normalized =>
          /\ norm.criteria = previous.norm.criteria
          /\ norm.flags = previous.norm.flags
          /\ norm.excludedIds = previous.norm.excludedIds
          /\ norm.limit = previous.norm.limit
     /\ (pc = "done" /\ queryCoords = previous.queryCoords) => result = previous.result

\* an envelope with flags and three exclusion ids, then its flattened form:
\* both calls exclude ids 4 and 1 and return the same non-empty result
ShapesEquivalentWitness ==
  /\ pc = "done"
  /\ previous # Nothing
  /\ request.shape = "flat"
  /\ Len(norm.excludedIds) = 2
  /\ norm.excludedIds = previous.norm.excludedIds
  /\ built # Nothing
  /\ result.count > 0
  /\ result = previous.result

\* ------------------------------------------------------------------------
\* rerankVehiclesTool.execute
\* ------------------------------------------------------------------------
\* the vehicle tool has no embedding tier: whatever the number of
\* candidates, execute builds the reranker agent and awaits run()
RerankVehiclesStart ==
  /\ rpc = "start"
  /\ rpc' = "llm"
  /\ UNCHANGED <<rerankInput, queryEmbedding, embedOutcome, embedCalls, llmCalls,
                 llmOutput, ranking>>
  /\ UNCHANGED <<searchVars, chatVars>>

\* the reply handling of the vehicle tool is that of the property tool
NextRerankVehicles ==
  \/ RerankVehiclesStart
  \/ LlmReplies
  \/ LlmRaises

SpecRerankVehicles == InitRerank /\ [][NextRerankVehicles]_vars

MiddleTier == Len(RerankCandidates) >= 4 /\ Len(RerankCandidates) <= 10

\* C19: the vehicle pipeline has the ranking shape of the property
\* pipeline: for 4 to 10 vehicle candidates rerank_vehicles tries the
\* embedding strategy before the LLM strategy, so the generative model is
\* reached only after an embedding attempt that failed.
VehiclesTryEmbeddingsFirst ==
  MiddleTier =>
    /\ rpc = "llm" => (embedCalls > 0 \/ embedOutcome = "failed")
    /\ llmCalls > 0 => embedOutcome = "failed"
    /\ rpc = "done" => embedOutcome \in {"ok", "failed"}

\* ------------------------------------------------------------------------
\* One-sided price bounds through the relaxed passes.
\* Requests giving no bound, only max_price, only min_price, or both.
BoundPrices ==
  {<<JNull, JNull>>, <<JNull, Peso(4000000)>>, <<Peso(6000000), JNull>>,
   <<Peso(4000000), Peso(6000000)>>}

BoundRequests ==
  {Request("wrapped",
           [BaseParams EXCEPT !.filter_location = loc, !.query = q,
                              !.min_price = pr[1], !.max_price = pr[2],
                              !.must_have_amenities = am],
           DefaultFlags, JNull) :
     loc \in CascadeLocations, q \in CascadeQueries, pr \in BoundPrices,
     am \in CascadeAmenities}

InitBound ==
  \E req \in BoundRequests \cup CascadeGateRequests, cat \in Catalogs :
    InitWith(req, cat)

SpecBound == InitBound /\ [][Next]_vars

OnlyMaxPrice == IsNullish(norm.criteria.min_price) /\ ~IsNullish(norm.criteria.max_price)

OnlyMinPrice == ~IsNullish(norm.criteria.min_price) /\ IsNullish(norm.criteria.max_price)

BothPrices == ~IsNullish(norm.criteria.min_price) /\ ~IsNullish(norm.criteria.max_price)

\* the prices that decide for a listing: its units' prices when it has units,
\* its own price (a missing one read as 0) when it has none
DecidingPrices(l) ==
  IF l.unitConfiguration # <<>> THEN UnitValues(l, "configPrice")
  ELSE {NumberOf(l.price).v}

\* none of the listing's deciding prices lies inside the requested bounds
OutsidePrice(l) ==
  /\ IsNum(norm.criteria.min_price) \/ IsNum(norm.criteria.max_price)
  /\ \A v \in DecidingPrices(l) :
       ~InRange(v, norm.criteria.min_price, norm.criteria.max_price)

ReturnedOutsidePrice == \E i \in 1..Len(built.kept) : OutsidePrice(built.kept[i])

\* C20: when exactly one of min_price and max_price is given, the price pass
\* never runs and every returned candidate satisfies the bound, whichever
\* pass produced it; a returned candidate lies outside the requested prices
\* only when both bounds were given and the price-relaxed pass ran.
OneSidedPriceKept ==
  Filtered =>
    /\ (OnlyMaxPrice \/ OnlyMinPrice) =>
         "price" \notin built.ran /\ ~ReturnedOutsidePrice
    /\ ReturnedOutsidePrice => BothPrices /\ "price" \in built.ran

\* a relaxed pass produced the candidates of a request with only a minimum
\* price, while a listing of the requested location below it stayed out
OneSidedPriceKeptWitness ==
  /\ Filtered
  /\ OnlyMinPrice
  /\ built.ran \cap {"amenity", "geo"} # {}
  /\ result.count > 0
  /\ \E i \in 1..Len(catalog) : OutsidePrice(catalog[i])

\* the same with only a maximum price
OneSidedMaxPriceWitness ==
  /\ Filtered
  /\ OnlyMaxPrice
  /\ built.ran \cap {"amenity", "geo"} # {}
  /\ result.count > 0
  /\ \E i \in 1..Len(catalog) : OutsidePrice(catalog[i])

\* with both bounds given the price-relaxed pass returns a listing outside them
ClosedRangeRelaxedWitness ==
  Filtered /\ BothPrices /\ "price" \in built.ran /\ ReturnedOutsidePrice

\* ------------------------------------------------------------------------
\* What each relaxation pass drops
\* ------------------------------------------------------------------------
WithoutAmenities(c) == [c EXCEPT !.must_have_amenities = JNull]

WithoutPrice(c) == [c EXCEPT !.min_price = JNull, !.max_price = JNull]

\* the pass that filled the list: a later pass runs only on an empty list
AmenityPassProduced ==
  "amenity" \in built.ran /\ built.ran \cap {"price", "geo"} = {} /\ Len(built.kept) > 0

PricePassProduced ==
  "price" \in built.ran /\ "geo" \notin built.ran /\ Len(built.kept) > 0

\* C21 as stated: every candidate of the amenity-relaxed pass violates no
\* active hard filter other than required amenities, and every candidate of
\* the price-relaxed pass violates no active hard filter other than price,
\* required amenities included.
EachPassDropsOneConstraint ==
  Filtered =>
    /\ AmenityPassProduced =>
         \A i \in 1..Len(built.kept) :
           ~ViolatesHardFilter(built.kept[i], WithoutAmenities(norm.criteria))
    /\ PricePassProduced =>
         \A i \in 1..Len(built.kept) :
           ~ViolatesHardFilter(built.kept[i], WithoutPrice(norm.criteria))

\* C21 amended: every candidate of the amenity-relaxed pass violates no
\* active hard filter other than required amenities, and every candidate of
\* the price-relaxed pass violates no active hard filter other than price
\* and required amenities, which that pass drops together.
PricePassDropsPriceAndAmenities ==
  Filtered =>
    /\ AmenityPassProduced =>
         \A i \in 1..Len(built.kept) :
           ~ViolatesHardFilter(built.kept[i], WithoutAmenities(norm.criteria))
    /\ PricePassProduced =>
         \A i \in 1..Len(built.kept) :
           ~ViolatesHardFilter(built.kept[i],
                               WithoutAmenities(WithoutPrice(norm.criteria)))

\* the price-relaxed pass returned a listing that lacks a required amenity
\* and lies outside the requested price range
PricePassDropsBothWitness ==
  /\ Filtered
  /\ PricePassProduced
  /\ \E i \in 1..Len(built.kept) :
       /\ ViolatesAmenities(built.kept[i], norm.criteria)
       /\ ViolatesRange(built.kept[i], "price", "configPrice",
                        norm.criteria.min_price, norm.criteria.max_price)

\* the amenity-relaxed pass returned a listing lacking a required amenity
\* while a listing of the catalog outside the price stayed out
AmenityPassDropsAmenitiesWitness ==
  /\ Filtered
  /\ AmenityPassProduced
  /\ \E i \in 1..Len(built.kept) : ViolatesAmenities(built.kept[i], norm.criteria)
  /\ \E it \in Range(catalog) :
       /\ ~ViolatesHardFilter(it, WithoutAmenities(WithoutPrice(norm.criteria)))
       /\ ViolatesHardFilter(it, WithoutAmenities(norm.criteria))

\* ------------------------------------------------------------------------
\* Entering and skipping the geo-fallback pass
\* ------------------------------------------------------------------------
GeoPassEntered == "geo" \in built.ran

\* C22: the geo-fallback pass is entered only when the query text signals
\* proximity and the requested location was geocoded; when it is skipped
\* (a failed geocoding included) the search still ends with a result, and
\* for a request with a location every returned candidate contains one of
\* the requested location tokens in its text and has a null distanceKm.
GeoPassOnlyOnProximityAndCoords ==
  Filtered =>
    /\ GeoPassEntered =>
         isNearbyQuery(norm.criteria.query) /\ ~IsNullish(queryCoords)
    /\ (~GeoPassEntered /\ LocationRequested) =>
         /\ result.count = Len(result.candidates)
         /\ \A i \in 1..Len(built.kept) :
              ~ViolatesLocation(built.kept[i], norm.criteria)
         /\ \A i \in 1..Len(result.candidates) :
              result.candidates[i].distanceKm = JNull

\* geocoding failed for a proximity query whose strict pass was empty: the
\* geo pass was skipped and a relaxed pass answered with listings of the
\* requested location
GeoPassSkippedWitness ==
  /\ Filtered
  /\ LocationRequested
  /\ isNearbyQuery(norm.criteria.query)
  /\ geocodeCalls = 1
  /\ IsNullish(queryCoords)
  /\ ~GeoPassEntered
  /\ Len(built.strict) = 0
  /\ result.count > 0

\* the geo pass was entered and tagged a returned listing with its distance
GeoPassEnteredWitness ==
  /\ Filtered
  /\ GeoPassEntered
  /\ \E i \in 1..Len(result.candidates) : result.candidates[i].distanceKm # JNull

\* ------------------------------------------------------------------------
\* Diversity balancing with a requested location that has no candidate
\* ------------------------------------------------------------------------
ThreeTokenLocations ==
  {JStr(<<"Makati", ",", "Taguig">>), JStr(<<"Makati", ",", "Taguig", ",", "Laguna">>)}

ThreeTokenRequests ==
  {Request("wrapped",
           [BaseParams EXCEPT !.filter_location = loc, !.requested_count = n,
                              !.sort_by = so],
           DefaultFlags, JNull) :
     loc \in ThreeTokenLocations, n \in {JNull, JNum(T(2)), JNum(T(3))},
     so \in {"null", "price_asc"}}

InitThreeToken ==
  \E req \in ThreeTokenRequests \cup CascadeGateRequests, cat \in DiversityCatalogs :
    InitWith(req, cat)

SpecThreeToken == InitThreeToken /\ [][Next]_vars

\* the deduplicated candidates in sorted order, before balancing
SortedOrder ==
  SortCandidates(Dedupe(Cascade(catalog, norm.criteria, norm.excludedIds,
                                queryCoords).candidates),
                 norm.criteria.sort_by)

\* the returned order is not the capped sorted order
SortedOrderReplaced == IdsOf(built.kept) # IdsOf(Cap(SortedOrder, norm.limit))

TokenHasCandidate(t) ==
  \E i \in 1..Len(SortedOrder) : Includes(LocationText(SortedOrder[i]), t)

\* C23: the sorted candidate order is replaced by the balanced one only if
\* every requested location token has at least one candidate; when some
\* token has none, the sorted order is returned unchanged.
ReplacedOnlyWithAllTokens ==
  Filtered =>
    (SortedOrderReplaced =>
       \A k \in 1..Len(RequestedTokens) : TokenHasCandidate(RequestedTokens[k]))

\* ------------------------------------------------------------------------
\* Which rangeIssue code is recorded
\* ------------------------------------------------------------------------
IssueBedrooms ==
  {<<JNull, JNull>>, <<JNum(T(1)), JNum(T(3))>>, <<JNum(T(3)), JNum(T(1))>>,
   <<JNum(T(0 - 1)), JNull>>, <<JNum(T(2)), JNum(T(0 - 1))>>}

IssueBathrooms ==
  {<<JNull, JNull>>, <<JNum(T(2)), JNum(T(1))>>, <<JNull, JNum(T(0 - 2))>>,
   <<JNum(T(1)), JNum(T(0 - 2))>>}

IssueFlags ==
  {[DefaultFlags EXCEPT !.rangeIssue = ri] : ri \in {"null", "MIN_GREATER_THAN_MAX"}}

IssueRequests ==
  {Request("wrapped",
           [BaseParams EXCEPT !.min_bedrooms = bd[1], !.max_bedrooms = bd[2],
                              !.min_bathrooms = ba[1], !.max_bathrooms = ba[2],
                              !.filter_location = loc],
           fl, JNull) :
     bd \in IssueBedrooms, ba \in IssueBathrooms, fl \in IssueFlags,
     loc \in {JNull, JStr(<<"Makati">>)}}

InitIssue == \E req \in IssueRequests, cat \in RangeCatalogs : InitWith(req, cat)

SpecIssue == InitIssue /\ [][Next]_vars

BedroomsGivenNegative ==
  GivenNegative(request.params.min_bedrooms, request.params.max_bedrooms)

BathroomsGivenNegative ==
  GivenNegative(request.params.min_bathrooms, request.params.max_bathrooms)

NegativeCodes == {"NEGATIVE_BEDROOMS", "NEGATIVE_BATHROOMS"}

\* a negative or inverted room range comes out with both bounds null and a
\* rangeIssue recorded
InvalidRoomRangesCleared ==
  /\ (BedroomsGivenNegative \/ BedroomsGivenInverted) =>
       /\ BothNull(norm.criteria.min_bedrooms, norm.criteria.max_bedrooms)
       /\ norm.flags.rangeIssue # "null"
  /\ (BathroomsGivenNegative \/ BathroomsGivenInverted) =>
       /\ BothNull(norm.criteria.min_bathrooms, norm.criteria.max_bathrooms)
       /\ norm.flags.rangeIssue # "null"

\* C24 as stated: a negative or inverted range is cleared with a rangeIssue
\* recorded, and when the criteria hold a negative bound while an inverted
\* range is present too, the recorded code is the negative one (read here
\* for requests that arrive without a rangeIssue flag).
NegativeCodeWinsOverall ==
  Normalized =>
    /\ InvalidRoomRangesCleared
    /\ (/\ request.flags.rangeIssue = "null"
        /\ BedroomsGivenNegative \/ BathroomsGivenNegative
        /\ BedroomsGivenInverted \/ BathroomsGivenInverted) =>
         norm.flags.rangeIssue \in NegativeCodes

\* the code one range reports: the negative code before the inverted one
IssueOfRange(negative, inverted, negativeKey) ==
  IF negative THEN negativeKey
  ELSE IF inverted THEN "MIN_GREATER_THAN_MAX" ELSE "null"

BedroomIssue ==
  IssueOfRange(BedroomsGivenNegative, BedroomsGivenInverted, "NEGATIVE_BEDROOMS")

BathroomIssue ==
  IssueOfRange(BathroomsGivenNegative, BathroomsGivenInverted, "NEGATIVE_BATHROOMS")

\* C24 amended: a negative or inverted bedroom or bathroom range is cleared
\* with a rangeIssue recorded; within one range the negative code wins over
\* MIN_GREATER_THAN_MAX; across ranges an incoming rangeIssue flag is kept,
\* else the bedroom range's code is recorded, else the bathroom range's, so
\* inverted bedrooms with a negative bathroom bound record MIN_GREATER_THAN_MAX.
NegativeCodeWinsWithinRange ==
  Normalized =>
    /\ InvalidRoomRangesCleared
    /\ norm.flags.rangeIssue =
         IF request.flags.rangeIssue # "null" THEN request.flags.rangeIssue
         ELSE IF BedroomIssue # "null" THEN BedroomIssue ELSE BathroomIssue

\* bathrooms 1 to -2, negative and inverted at once, record NEGATIVE_BATHROOMS
NegativeCodeWinsWitness ==
  /\ Normalized
  /\ request.flags.rangeIssue = "null"
  /\ BedroomIssue = "null"
  /\ BathroomsGivenNegative /\ BathroomsGivenInverted
  /\ norm.flags.rangeIssue = "NEGATIVE_BATHROOMS"

\* inverted bedrooms with a negative bathroom bound record MIN_GREATER_THAN_MAX
InvertedBedroomsWinWitness ==
  /\ Normalized
  /\ request.flags.rangeIssue = "null"
  /\ BedroomsGivenInverted /\ ~BedroomsGivenNegative
  /\ BathroomsGivenNegative
  /\ norm.flags.rangeIssue = "MIN_GREATER_THAN_MAX"

\* ------------------------------------------------------------------------
\* When the geocoder is called
\* ------------------------------------------------------------------------
GeocodedLocations ==
  {JNull, JStr(<<"Makati">>), JStr(<<"Makati", ",", " ", "Taguig">>),
   JStr(<<",", "Makati">>)}

GeocodedRequests ==
  {Request("wrapped",
           [BaseParams EXCEPT !.filter_location = loc, !.query = q,
                              !.must_have_amenities = am],
           DefaultFlags, JNull) :
     loc \in GeocodedLocations, q \in CascadeQueries, am \in CascadeAmenities}

InitGeocoded ==
  \E req \in GeocodedRequests \cup CascadeGateRequests, cat \in Catalogs :
    InitWith(req, cat)

SpecGeocoded == InitGeocoded /\ [][Next]_vars

\* the first three passes left the list empty, so the fourth is reached
ReachesGeoPass == Len(built.kept) = 0 \/ GeoPassEntered

\* C25 as stated: one search calls the geocoder at most once, and only
\* when a location was requested and the cascade reaches the geo-fallback
\* pass.
GeocodedOnlyForGeoPass ==
  /\ geocodeCalls <= 1
  /\ Filtered => (geocodeCalls = 1 => LocationRequested /\ ReachesGeoPass)

\* the first comma-separated entry of the requested location is not blank
FirstEntryGiven ==
  /\ norm.criteria.filter_location # <<>>
  /\ \E i \in 1..Len(norm.criteria.filter_location) :
       /\ norm.criteria.filter_location[i] \notin {",", " "}
       /\ \A j \in 1..(i - 1) : norm.criteria.filter_location[j] = " "

\* C25 amended: one search calls the geocoder at most once; a search that
\* gets as far as filtering has called it exactly when the first entry of
\* the requested location is not blank, before the strict pass and whether
\* or not the cascade reaches the geo-fallback pass; a search rejected at a
\* gate or failing to fetch has not called it.
GeocodedWheneverLocationGiven ==
  /\ geocodeCalls <= 1
  /\ Filtered => (geocodeCalls = 1 <=> FirstEntryGiven)
  /\ (pc = "done" /\ ~Filtered) => geocodeCalls = 0

\* the geocoder was called although the strict pass answered the search
GeocodedForStrictResultWitness ==
  /\ Filtered
  /\ geocodeCalls = 1
  /\ Len(built.strict) > 0
  /\ built.ran = {"strict"}

\* a location whose first entry is blank is searched without geocoding
BlankFirstEntryWitness ==
  /\ Filtered
  /\ LocationRequested
  /\ ~FirstEntryGiven
  /\ geocodeCalls = 0
  /\ result.count > 0

\* ------------------------------------------------------------------------
\* Normalisation of the list-valued filters
\* ------------------------------------------------------------------------
ListInputs ==
  {JNull, JStr(<<>>), JStr(<<"Ayala">>), JArr(<<>>), JArr(<<JStr(<<" ">>)>>),
   JArr(<<JStr(<<"Pool">>), JStr(<<" ", "Pool">>), JStr(<<"pool">>)>>)}

ListRequests ==
  {Request("wrapped",
           [BaseParams EXCEPT !.filter_developer = dev, !.filter_project = prj,
                              !.must_have_amenities = am, !.filter_location = loc],
           DefaultFlags, JNull) :
     dev \in ListInputs, prj \in ListInputs, am \in ListInputs,
     loc \in {JNull, JStr(<<"Makati">>)}}

InitList ==
  \E req \in ListRequests \cup CascadeGateRequests, cat \in RangeCatalogs :
    InitWith(req, cat)

SpecList == InitList /\ [][Next]_vars

NullOrFilled(j) == j = JNull \/ (j.k = "arr" /\ Len(j.a) > 0)

LowerCased(j) ==
  j.k = "arr" => \A i \in 1..Len(j.a) : j.a[i].s = ToLower(j.a[i].s)

NoDuplicates(j) ==
  j.k = "arr" => \A i, k \in 1..Len(j.a) : j.a[i] = j.a[k] => i = k

NormalizedLists ==
  {norm.criteria.filter_developer, norm.criteria.filter_project,
   norm.criteria.must_have_amenities}

\* C26 as stated: after normalisation the developer, project and required
\* amenity filters are each null or a non-empty list, lower-cased and free
\* of duplicates.
ListsLowerCasedDeduplicated ==
  Normalized =>
    \A j \in NormalizedLists : NullOrFilled(j) /\ LowerCased(j) /\ NoDuplicates(j)

\* the entries given: the elements of a list, a scalar as one entry
GivenEntries(v) ==
  IF v.k = "arr" THEN v.a ELSE IF v.k = "null" THEN <<>> ELSE <<v>>

NonBlankAt(v) ==
  {i \in 1..Len(GivenEntries(v)) :
     GivenEntries(v)[i].k # "null" /\ Trim(StringOf(GivenEntries(v)[i])) # <<>>}

\* position in the output of the input entry at index i
RankIn(v, i) == Cardinality({k \in NonBlankAt(v) : k <= i})

\* j lists the non-blank entries of v, trimmed, in the order given,
\* duplicates included, lower-cased or not; null when there is none
ListsTrimmedEntries(j, v, lower) ==
  IF NonBlankAt(v) = {} THEN j = JNull
  ELSE /\ j.k = "arr"
       /\ Len(j.a) = Cardinality(NonBlankAt(v))
       /\ \A i \in NonBlankAt(v) :
            j.a[RankIn(v, i)] =
              JStr(IF lower THEN ToLower(Trim(StringOf(GivenEntries(v)[i])))
                   ELSE Trim(StringOf(GivenEntries(v)[i])))

\* C26 amended: each list-valued filter, given as a scalar or as a list, is
\* normalised to the list of its non-blank entries, trimmed, in the order
\* given and with duplicates kept; empty input gives null, never an empty
\* list. Only the required amenities are lower-cased by normalisation; the
\* developer and project filters keep their case.
ListsTrimmedNotDeduplicated ==
  Normalized =>
    /\ ListsTrimmedEntries(norm.criteria.filter_developer,
                           request.params.filter_developer, FALSE)
    /\ ListsTrimmedEntries(norm.criteria.filter_project,
                           request.params.filter_project, FALSE)
    /\ ListsTrimmedEntries(norm.criteria.must_have_amenities,
                           request.params.must_have_amenities, TRUE)

\* a developer keeps its capital, and the amenities given as Pool, " Pool"
\* and pool come out as pool three times
ListsKeepCaseAndDuplicatesWitness ==
  /\ Normalized
  /\ norm.criteria.filter_developer = JArr(<<JStr(<<"Ayala">>)>>)
  /\ norm.criteria.must_have_amenities =
       JArr(<<JStr(<<"pool">>), JStr(<<"pool">>), JStr(<<"pool">>)>>)
  /\ norm.criteria.filter_project = JNull
  /\ request.params.filter_project = JArr(<<JStr(<<" ">>)>>)

\* ------------------------------------------------------------------------
\* Sorting by price before the cap
\* ------------------------------------------------------------------------
\* listings priced on the listing, priced on the units, and without a price
SortPool == {P1, P2, P3, P4, M1}

SortCatalogs == {c \in SeqsUpTo(SortPool, MaxDiverse) : DistinctIds(c)}

SortRequests ==
  {Request("wrapped",
           [BaseParams EXCEPT !.sort_by = so, !.requested_count = n,
                              !.filter_location = loc],
           DefaultFlags, JNull) :
     so \in {"null", "price_asc", "price_desc"}, n \in {JNum(T(1)), JNum(T(2))},
     loc \in {JNull, JStr(<<"Makati">>)}}

InitSort ==
  \E req \in SortRequests \cup CascadeGateRequests, cat \in SortCatalogs :
    InitWith(req, cat)

SpecSort == InitSort /\ [][Next]_vars

HasUnitPrices(l) == l.unitConfiguration # <<>>

HasPrice(l) == HasUnitPrices(l) \/ (IsNum(l.price) /\ l.price.v # 0)

LowestPrice(l) ==
  IF HasUnitPrices(l)
  THEN CHOOSE v \in UnitValues(l, "configPrice") :
         \A w \in UnitValues(l, "configPrice") : v <= w
  ELSE l.price.v

HighestPrice(l) ==
  IF HasUnitPrices(l)
  THEN CHOOSE v \in UnitValues(l, "configPrice") :
         \A w \in UnitValues(l, "configPrice") : v >= w
  ELSE IF HasPrice(l) THEN l.price.v ELSE 0

\* a may stand before b under price_asc: unpriced listings after priced ones
AscendingPair(a, b) ==
  ~HasPrice(b) \/ (HasPrice(a) /\ LowestPrice(a) <= LowestPrice(b))

\* a may stand before b under price_desc: an unpriced listing counts as 0
DescendingPair(a, b) == HighestPrice(a) >= HighestPrice(b)

PairInOrder(a, b) ==
  IF norm.criteria.sort_by = "price_asc" THEN AscendingPair(a, b)
  ELSE DescendingPair(a, b)

\* strict-pass listings the cap cut off
CutOff == {l \in Range(built.strict) : \A i \in 1..Len(built.kept) : built.kept[i].id # l.id}

\* C27: with sort_by price_asc or price_desc the returned listings are in
\* price order, by the lowest unit price (ascending) or the highest unit
\* price (descending) when the listing has unit prices and by the listing
\* price otherwise; ascending puts a listing without a price after every
\* priced one, descending orders it as price 0; and the cap comes after the
\* sort, so every listing it cut off may stand after every returned one.
SortedByPriceBeforeCap ==
  (Filtered /\ norm.criteria.sort_by \in {"price_asc", "price_desc"}) =>
    /\ \A i, j \in 1..Len(built.kept) :
         i < j => PairInOrder(built.kept[i], built.kept[j])
    /\ \A l \in CutOff : \A i \in 1..Len(built.kept) : PairInOrder(built.kept[i], l)

\* ascending: a listing later in the catalog was returned ahead of an
\* earlier one by its lowest unit price, and the unpriced listing was cut off
SortedAscendingWitness ==
  /\ Filtered
  /\ norm.criteria.sort_by = "price_asc"
  /\ catalog = <<M1, P1, P2>>
  /\ IdsOf(built.kept) = <<P2.id, P1.id>>
  /\ CutOff = {M1}

\* descending: the unit-priced listing leads by its highest unit price and
\* the unpriced listing comes last, as price 0
SortedDescendingWitness ==
  /\ Filtered
  /\ norm.criteria.sort_by = "price_desc"
  /\ catalog = <<M1, P1, P2>>
  /\ IdsOf(built.kept) = <<P2.id, P1.id>>
  /\ CutOff = {M1}

\* ------------------------------------------------------------------------
\* The range of the embedding scores
\* ------------------------------------------------------------------------
EmbeddingRanked == Reranked /\ ranking.source = "embedding"

\* C28: every score the embedding strategy returns lies between 50 and 100
\* inclusive, whatever the query and candidate vectors.
EmbeddingScoresFrom50To100 ==
  EmbeddingRanked =>
    \A id \in KeysOf(ranking.scoresById) :
      ranking.scoresById.m[id] >= 50 /\ ranking.scoresById.m[id] <= 100

\* ------------------------------------------------------------------------
\* The vehicle tool: the strict pass of its buildStrictCandidates.
\* A vehicle record as the content API returns it; a text field that is
\* null or empty is the empty text: the code reads both as falsy.
\* ------------------------------------------------------------------------
BaseVehicle ==
  [id |-> JStr(<<"0">>), name |-> <<>>, description |-> <<>>, vcategory |-> <<>>,
   fuelSystem |-> <<>>, seatingCapacity |-> <<>>, srp |-> JNull,
   unitConfiguration |-> <<>>, distributor |-> [name |-> <<>>],
   brand |-> [name |-> <<>>], make |-> <<>>, model |-> <<>>]

\* the filter lists of one request, lower-cased
VehicleFilters(criteria) ==
  [distributorFilters |-> buildNormalizeList(criteria.filter_distributor, TRUE),
   brandFilters |-> buildNormalizeList(criteria.filter_brand, TRUE),
   featureFilters |-> buildNormalizeList(criteria.must_have_features, TRUE),
   locationTokens |-> buildNormalizeList(criteria.filter_location, TRUE),
   modelFilters |-> buildNormalizeList(criteria.filter_model, TRUE),
   fuelTypeFilters |-> buildNormalizeList(criteria.filter_fuel_type, TRUE),
   categoryFilters |-> buildNormalizeList(criteria.filter_category, TRUE)]

vehicleMeetsPrice(vehicle, criteria) ==
  IF IsNullish(criteria.min_price) /\ IsNullish(criteria.max_price) THEN TRUE
  ELSE IF Len(UnitNumbers(vehicle, "srp")) > 0
  THEN \E i \in 1..Len(UnitNumbers(vehicle, "srp")) :
         meets(UnitNumbers(vehicle, "srp")[i].v, criteria.min_price, criteria.max_price)
  ELSE IF IsFinite(NumberOf(vehicle.srp))
  THEN meets(NumberOf(vehicle.srp).v, criteria.min_price, criteria.max_price)
  ELSE FALSE

\* replace(/[_-]/g, '')
WithoutSeparators(text) == SeqFilter(text, [c \in Range(text) |-> c \notin {"_", "-"}])

\* one category filter against String(vehicle.vcategory || "").toLowerCase()
categoryMatches(vcategory, filterLower) ==
  \/ vcategory = filterLower
  \/ Includes(vcategory, filterLower) \/ Includes(filterLower, vcategory)
  \/ WithoutSeparators(vcategory) = WithoutSeparators(filterLower)
  \/ /\ filterLower = <<"sedan">>
     /\ Includes(vcategory, <<"sedan">>)
          \/ Includes(WithoutSeparators(vcategory), <<"sedan">>)
  \/ /\ vcategory = <<"sedan">>
     /\ Includes(filterLower, <<"sedan">>)
          \/ Includes(WithoutSeparators(filterLower), <<"sedan">>)

vehicleMeetsCategory(vehicle, categoryFilters) ==
  IF Len(categoryFilters) = 0 THEN TRUE
  ELSE \E i \in 1..Len(categoryFilters) :
         categoryMatches(ToLower(vehicle.vcategory), ToLower(categoryFilters[i]))

vehicleMeetsFuelType(vehicle, fuelTypeFilters) ==
  IF Len(fuelTypeFilters) = 0 THEN TRUE
  ELSE \E i \in 1..Len(fuelTypeFilters) :
         EitherIncludes(ToLower(vehicle.fuelSystem), fuelTypeFilters[i])

\* /(\d+)[-\s]?seater/ matches text[s..e] as its digits
SeaterMatch(text, s, e) ==
  /\ s <= e
  /\ \A k \in s..e : text[k] \in Digits
  /\ \/ e + 1 <= Len(text) /\ text[e + 1] = "seater"
     \/ e + 2 <= Len(text) /\ text[e + 1] \in {"-", " "} /\ text[e + 2] = "seater"

SeaterMatches(text) ==
  {m \in (1..Len(text)) \X (1..Len(text)) : SeaterMatch(text, m[1], m[2])}

\* parseInt of the first match, null without a match
seatingOf(text) ==
  IF SeaterMatches(text) = {} THEN JNull
  ELSE JNum(T(DigitsVal(
         SubSeq(text,
                (CHOOSE m \in SeaterMatches(text) :
                   \A n \in SeaterMatches(text) : m[1] <= n[1])[1],
                (CHOOSE m \in SeaterMatches(text) :
                   \A n \in SeaterMatches(text) : m[1] <= n[1])[2]), 0)))

\* a vehicle whose seating capacity cannot be read is not excluded
vehicleMeetsSeating(vehicle, criteria) ==
  IF IsNullish(criteria.min_seating) /\ IsNullish(criteria.max_seating) THEN TRUE
  ELSE IF IsNullish(seatingOf(ToLower(vehicle.seatingCapacity))) THEN TRUE
  ELSE meets(seatingOf(ToLower(vehicle.seatingCapacity)).v,
             criteria.min_seating, criteria.max_seating)

\* vehicleMeetsDistributor, vehicleMeetsBrand, vehicleMeetsModel: some
\* filter and some token of the vehicle include one another
vehicleMeetsTokens(tokens, filters) ==
  IF Len(filters) = 0 THEN TRUE
  ELSE \E i \in 1..Len(filters) : \E token \in tokens : EitherIncludes(token, filters[i])

collectFeatureTokens(vehicle) ==
  TextTokens(vehicle.description)
    \cup UNION {TextTokens(vehicle.unitConfiguration[i].features) :
                  i \in 1..Len(vehicle.unitConfiguration)}

vehicleHasRequiredFeatures(vehicle, featureFilters) ==
  \A i \in 1..Len(featureFilters) :
    \E token \in collectFeatureTokens(vehicle) : EitherIncludes(token, featureFilters[i])

vehicleTextContainsAnyLocation(vehicle, locations) ==
  \E i \in 1..Len(locations) :
    Includes(ToLower(vehicle.distributor.name \o <<" ">> \o vehicle.name \o <<" ">>
                       \o vehicle.description),
             locations[i])

\* the first loop: every hard filter, text location when one was requested
VehicleStrictKeeps(it, criteria, f, excludedIds) ==
  /\ ~IsExcluded(it, excludedIds)
  /\ vehicleMeetsPrice(it, criteria)
  /\ vehicleMeetsCategory(it, f.categoryFilters)
  /\ vehicleMeetsFuelType(it, f.fuelTypeFilters)
  /\ vehicleMeetsSeating(it, criteria)
  /\ vehicleMeetsTokens(NonEmpty({TokenOf(it.distributor.name)}), f.distributorFilters)
  /\ vehicleMeetsTokens(NonEmpty({TokenOf(it.brand.name), TokenOf(it.make)}),
                        f.brandFilters)
  /\ vehicleMeetsTokens(NonEmpty({TokenOf(it.name), TokenOf(it.model), TokenOf(it.make)}),
                        f.modelFilters)
  /\ vehicleHasRequiredFeatures(it, f.featureFilters)
  /\ (Len(f.locationTokens) > 0 => vehicleTextContainsAnyLocation(it, f.locationTokens))

VehicleStrictPass(vehicles, criteria, excludedIds) ==
  SeqFilter(vehicles, [it \in Range(vehicles) |->
                      VehicleStrictKeeps(it, criteria, VehicleFilters(criteria),
                                         excludedIds)])

\* the strict pass over the fetched vehicles
EvalVehicleStrict ==
  /\ pc = "vehicles"
  /\ built' = [k |-> "vehicles",
               strict |-> VehicleStrictPass(catalog, request.criteria,
                                            request.excludedIds)]
  /\ pc' = "done"
  /\ UNCHANGED <<rerankVars, chatVars, previous>>
  /\ UNCHANGED <<request, catalog, norm, items, queryCoords, result, fetchCalls,
                 geocodeCalls, filterRuns>>

NextVehicles == EvalVehicleStrict

\* ------------------------------------------------------------------------
\* Vehicle requests
\* ------------------------------------------------------------------------
VehicleUnit(srp) == [srp |-> srp, features |-> <<>>]

V1 == [BaseVehicle EXCEPT !.id = JStr(<<"1">>), !.name = <<"fortuner">>,
         !.vcategory = <<"suv">>, !.fuelSystem = <<"diesel">>,
         !.seatingCapacity = <<"7", "-", "seater">>,
         !.unitConfiguration = <<VehicleUnit(Peso(1500000))>>]

V2 == [BaseVehicle EXCEPT !.id = JStr(<<"2">>), !.name = <<"vios">>,
         !.vcategory = <<"compact", "_", "sedan">>, !.fuelSystem = <<"gasoline">>,
         !.seatingCapacity = <<"5", " ", "seater">>, !.srp = Peso(800000)]

\* a vehicle with no category, fuel system or seating capacity
V3 == [BaseVehicle EXCEPT !.id = JStr(<<"3">>), !.name = <<"bare">>,
         !.srp = Peso(900000)]

V4 == [BaseVehicle EXCEPT !.id = JStr(<<"4">>), !.name = <<"innova">>,
         !.vcategory = <<"mpv">>, !.fuelSystem = <<"diesel">>,
         !.seatingCapacity = <<"1", "0", "seater">>, !.srp = Peso(1200000)]

VehiclePool == {V1, V2, V3, V4}

VehicleCatalogs == SeqsUpTo(VehiclePool, MaxCatalog)

BaseVehicleCriteria ==
  [filter_distributor |-> JNull, filter_brand |-> JNull, must_have_features |-> JNull,
   filter_location |-> JNull, filter_model |-> JNull, filter_fuel_type |-> JNull,
   filter_category |-> JNull, min_price |-> JNull, max_price |-> JNull,
   min_seating |-> JNull, max_seating |-> JNull]

VehicleCriteria ==
  {[BaseVehicleCriteria EXCEPT !.filter_category = cat, !.filter_fuel_type = fuel,
                               !.min_seating = st[1], !.max_seating = st[2],
                               !.max_price = hi] :
     cat \in {JNull, JArr(<<JStr(<<"suv">>)>>), JArr(<<JStr(<<"sedan">>)>>)},
     fuel \in {JNull, JArr(<<JStr(<<"diesel">>)>>)},
     st \in {<<JNull, JNull>>, <<JNum(T(7)), JNull>>, <<JNull, JNum(T(5))>>},
     hi \in {JNull, Peso(1000000)}}

InitVehicles ==
  /\ \E criteria \in VehicleCriteria, cat \in VehicleCatalogs,
        ex \in {<<>>, <<JStr(<<"2">>)>>} :
       /\ request = [criteria |-> criteria, excludedIds |-> ex]
       /\ catalog = cat
  /\ pc = "vehicles"
  /\ norm = Nothing
  /\ items = <<>>
  /\ queryCoords = JNull
  /\ built = Nothing
  /\ result = Nothing
  /\ fetchCalls = 0
  /\ geocodeCalls = 0
  /\ filterRuns = 0
  /\ previous = Nothing
  /\ RerankIdle
  /\ ChatIdle

SpecVehicles == InitVehicles /\ [][NextVehicles]_vars

VehiclesFiltered == pc = "done" /\ built # Nothing /\ built.k = "vehicles"

CategoryFilterActive == ~IsNullish(request.criteria.filter_category)

FuelFilterActive == ~IsNullish(request.criteria.filter_fuel_type)

SeatingFilterActive ==
  ~IsNullish(request.criteria.min_seating) \/ ~IsNullish(request.criteria.max_seating)

\* C29: no vehicle kept by the strict pass lacks the category, the fuel
\* system or the seating capacity that an active filter constrains.
NoKeptVehicleLacksConstrainedValue ==
  VehiclesFiltered =>
    \A i \in 1..Len(built.strict) :
      /\ CategoryFilterActive => built.strict[i].vcategory # <<>>
      /\ FuelFilterActive => built.strict[i].fuelSystem # <<>>
      /\ SeatingFilterActive => built.strict[i].seatingCapacity # <<>>

\* the same for the category and the fuel system alone
NoKeptVehicleLacksCategoryOrFuel ==
  VehiclesFiltered =>
    \A i \in 1..Len(built.strict) :
      /\ CategoryFilterActive => built.strict[i].vcategory # <<>>
      /\ FuelFilterActive => built.strict[i].fuelSystem # <<>>

\* ------------------------------------------------------------------------
\* The chat endpoint (api/agent-chat.js): concurrent requests and the
\* per-client conversation cache.  The code between two awaits runs without
\* interruption, so a request moves in steps: up to the first await, from
\* the created conversation to the agent run, and from the run to the reply.
\* A conversation id is the one a client sent along or the n-th one created.
\* ------------------------------------------------------------------------
MaxRequests == 2

\* the id a client may send along
GivenConversation == [k |-> "given"]

\* conv.id of the n-th conversation created
CreatedConversation(n) == [k |-> "created", n |-> n]

\* a request as received: POST with a messages array or not, the client id
\* ("" when neither header nor body carries one), the conversation id and
\* the new-chat flag
ChatRequest(wellFormed, clientId, conversationIdIn, isNewChat) ==
  [wellFormed |-> wellFormed, clientIdIn |-> clientId,
   conversationIdIn |-> conversationIdIn, isNewChat |-> isNewChat,
   pc |-> "received", conversationId |-> JNull]

ChatRequests ==
  {ChatRequest(w, c, g, n) :
     w \in BOOLEAN, c \in {"", "c1"}, g \in {JNull, GivenConversation},
     n \in BOOLEAN}

\* (header || body || 'default').toString()
clientIdOf(h) == IF h.clientIdIn # "" THEN h.clientIdIn ELSE "default"

\* the cache after the new-chat branch
cacheAfterNewChat(h, cache) ==
  IF h.isNewChat THEN [cache EXCEPT ![clientIdOf(h)] = JNull] ELSE cache

\* conversationId when the handler reaches `if (!conversationId)` for the
\* second time: the one given unless a new chat is asked, else the cached one
resolvedConversation(h, cache) ==
  IF ~h.isNewChat /\ h.conversationIdIn # JNull THEN h.conversationIdIn
  ELSE cacheAfterNewChat(h, cache)[clientIdOf(h)]

\* from the request to the first await: a reply 405/400, the await of
\* conversations.create, or the await of the agent run
ChatStart(r) ==
  /\ handlers[r].pc = "received"
  /\ IF ~handlers[r].wellFormed
     THEN /\ handlers' = [handlers EXCEPT ![r].pc = "rejected"]
          /\ UNCHANGED conversationIdByClient
     ELSE /\ conversationIdByClient' =
               cacheAfterNewChat(handlers[r], conversationIdByClient)
          /\ handlers' =
               [handlers EXCEPT
                  ![r].conversationId =
                     resolvedConversation(handlers[r], conversationIdByClient),
                  ![r].pc =
                     IF resolvedConversation(handlers[r], conversationIdByClient)
                          = JNull
                     THEN "creating" ELSE "running"]
  /\ UNCHANGED conversationsCreated
  /\ UNCHANGED <<searchVars, rerankVars>>

\* conversations.create returned: the new id is kept and cached
ChatCreated(r) ==
  /\ handlers[r].pc = "creating"
  /\ conversationsCreated' = conversationsCreated + 1
  /\ handlers' = [handlers EXCEPT ![r].conversationId =
                                     CreatedConversation(conversationsCreated + 1),
                                  ![r].pc = "running"]
  /\ conversationIdByClient' =
       [conversationIdByClient EXCEPT
          ![clientIdOf(handlers[r])] = CreatedConversation(conversationsCreated + 1)]
  /\ UNCHANGED <<searchVars, rerankVars>>

\* conversations.create or the agent run raised: reply 500
ChatFails(r) ==
  /\ handlers[r].pc \in {"creating", "running"}
  /\ handlers' = [handlers EXCEPT ![r].pc = "failed"]
  /\ UNCHANGED <<conversationIdByClient, conversationsCreated>>
  /\ UNCHANGED <<searchVars, rerankVars>>

\* the agent ran with the conversation id: reply 200 carrying it
ChatReplied(r) ==
  /\ handlers[r].pc = "running"
  /\ handlers' = [handlers EXCEPT ![r].pc = "replied"]
  /\ UNCHANGED <<conversationIdByClient, conversationsCreated>>
  /\ UNCHANGED <<searchVars, rerankVars>>

NextChat ==
  \E r \in 1..MaxRequests :
    \/ ChatStart(r)
    \/ ChatCreated(r)
    \/ ChatFails(r)
    \/ ChatReplied(r)

InitChat ==
  /\ SearchIdle
  /\ RerankIdle
  /\ handlers \in [1..MaxRequests -> ChatRequests]
  /\ conversationIdByClient = [c \in ChatClients |-> JNull]
  /\ conversationsCreated = 0

SpecChat == InitChat /\ [][NextChat]_vars

\* every request is a well-formed one of the client, without a conversation
\* id and without the new-chat flag
AllPlainFrom(clientId) ==
  \A r \in 1..MaxRequests :
    /\ handlers[r].wellFormed
    /\ handlers[r].clientIdIn = clientId
    /\ handlers[r].conversationIdIn = JNull
    /\ ~handlers[r].isNewChat

RanAgent(r) == handlers[r].pc \in {"running", "replied"}

\* C30: when all requests carry the same client id, no conversation id and
\* no new-chat flag, at most one conversation is created and every request
\* runs the agent with the id the cache holds for the client; and two
\* requests without a client id never run with one cached conversation.
OneConversationPerClient ==
  /\ AllPlainFrom("c1") =>
       /\ conversationsCreated <= 1
       /\ \A r \in 1..MaxRequests :
            RanAgent(r) => handlers[r].conversationId = conversationIdByClient["c1"]
  /\ AllPlainFrom("") =>
       \A r, s \in 1..MaxRequests :
         (r # s /\ RanAgent(r) /\ RanAgent(s)) =>
           handlers[r].conversationId # handlers[s].conversationId

\* the first half alone: one conversation per client id under concurrency
OneConversationForSameClient ==
  AllPlainFrom("c1") =>
    /\ conversationsCreated <= 1
    /\ \A r \in 1..MaxRequests :
         RanAgent(r) => handlers[r].conversationId = conversationIdByClient["c1"]

\* the second half alone: requests without a client id share nothing
NoSharingWithoutClientId ==
  AllPlainFrom("") =>
    \A r, s \in 1..MaxRequests :
      (r # s /\ RanAgent(r) /\ RanAgent(s)) =>
        handlers[r].conversationId # handlers[s].conversationId

====
